---- MODULE Spec2Model ----
(***************************************************************************)
(* The automation-session manager of src/electron/automationManager.ts     *)
(* (class AutomationManager) as a state machine.                           *)
(*                                                                         *)
(* The manager runs on one event loop.  Every action below is one turn of  *)
(* that loop: the code that runs from the completion of an awaited         *)
(* browser / window / timer operation up to the next such await.           *)
(* Continuations that the code reaches through already-settled promises    *)
(* (microtasks) are kept in the queue `microtasks`; no other action is     *)
(* enabled until that queue has been drained, as in the JavaScript event   *)
(* loop.                                                                   *)
(***************************************************************************)
EXTENDS Integers, Sequences, FiniteSets, TLC

\* ---------------------------------------------------------------- bounds
\* number of external startAutomation calls
MaxCalls == 2
\* number of times the portal answers a navigation with its login page
MaxWalls == 3
\* session timers that find their time used up in one behaviour
MaxExpiries == 1
\* login pages shown in the behaviours that include the timer checks
MaxTimerWalls == 2
\* login pages shown in the behaviours that include result lookups
MaxQueryWalls == 1
\* login pages shown in the behaviours that include failing browser closes
MaxCloseWalls == 1
\* number of startSetup calls
MaxSetups == 1
\* login pages shown in the behaviours that include a setup run
MaxSetupWalls == 1
\* login pages shown in the behaviours with fair progress
MaxLiveWalls == 2
\* startAutomation calls and login pages shown in the behaviours in which the
\* operator only cancels
MaxPauseCalls == 3
MaxPauseWalls == 3

\* ------------------------------------------------------ program constants
\* private readonly MAX_COMPLETED_RESULTS = 1000
MAX_COMPLETED_RESULTS == 1000

Calls == 1..MaxCalls

\* the optional parameters of a createListing request
Condition == "Used - Good"
Notes     == "scuffed"

\* A createListing request: the three required parameters (product id, sku,
\* price) and the two optional ones; "" and 0 are the values the check
\* `!params?.x` treats as absent.
Requests ==
    { [asin |-> "B1", sku |-> "S1", price |-> 9,
       condition |-> Condition, conditionNotes |-> Notes],
      [asin |-> "",   sku |-> "S1", price |-> 9,
       condition |-> Condition, conditionNotes |-> Notes],
      [asin |-> "B1", sku |-> "",   price |-> 9,
       condition |-> Condition, conditionNotes |-> Notes],
      [asin |-> "B1", sku |-> "S1", price |-> 0,
       condition |-> Condition, conditionNotes |-> Notes] }

\* the identifier the portal renders for the listing created by session i
\* (X0 followed by 8 characters of [A-Z0-9]); one per created listing
PortalFnsku(i) == "X0AAAAAAA" \o ToString(i)

\* the same identifier as a sequence of characters
PortalChars(i) == << "X", "0", "A", "A", "A", "A", "A", "A", "A", ToString(i) >>

\* The text of the element with test id 'fnsku' when session i reads it, as
\* a sequence of characters: the identifier alone, the identifier inside
\* other text, the identifier after a broken start, a lower-case look-alike,
\* a text that is too short, and no text at all (textContent null).
PageTexts(i) ==
    { PortalChars(i),
      << "F", "N", ":", " " >> \o PortalChars(i) \o << " ", "o", "k" >>,
      << "X", "0", "-" >> \o PortalChars(i),
      << "x", "0", "a", "a", "a", "a", "a", "a", "a", "1" >>,
      << "X", "0", "A", "B" >>,
      << >> }

\* the character class [A-Z0-9]
UpperOrDigit ==
    { "A", "B", "C", "D", "E", "F", "G", "H", "I", "J", "K", "L", "M",
      "N", "O", "P", "Q", "R", "S", "T", "U", "V", "W", "X", "Y", "Z",
      "0", "1", "2", "3", "4", "5", "6", "7", "8", "9" }

\* /X0[A-Z0-9]{8}/ matches the text at position a
MatchesAt(text, a) ==
    /\ a + 9 <= Len(text)
    /\ text[a] = "X"
    /\ text[a + 1] = "0"
    /\ \A n \in 2..9 : text[a + n] \in UpperOrDigit

\* the characters of a sequence as one string
RECURSIVE CharsToString(_)
CharsToString(cs) == IF cs = << >> THEN "" ELSE Head(cs) \o CharsToString(Tail(cs))

\* an extraction that takes the whole text of the element
MatchFnsku_Whole(text) == CharsToString(text)

\* fnsku?.match(/X0[A-Z0-9]{8}/)?.[0]: the leftmost match, "" for undefined
MatchFnsku(text) ==
    IF \E a \in 1..Len(text) : MatchesAt(text, a)
    THEN LET a == CHOOSE a \in 1..Len(text) :
                     /\ MatchesAt(text, a)
                     /\ \A b \in 1..(a - 1) : ~MatchesAt(text, b)
         IN  CharsToString(SubSeq(text, a, a + 9))
    ELSE ""

VARIABLES
    isReauthenticating,   \* this.isReauthenticating
    runningAutomations,   \* this.runningAutomations: the keys, in insertion order
    pendingAutomations,   \* this.pendingAutomations
    completedResults,     \* this.completedResults: entries in insertion order
    oldResults,           \* number of entries of completedResults that were
                          \* inserted before the sessions of this model
    authBrowser,          \* this.authBrowser: 0 (null) or the cycle that launched it
    authOpen,             \* login browsers that are open, by launching cycle
    auto,                 \* every RunningAutomation object created so far, by id
    cycles,               \* every handleLoginRequired call that set the flag
    calls,                \* the external startAutomation calls and their promises
    walls,                \* login pages served so far
    lastResult,           \* the last getAutomationResult call: its id and what it returned
    microtasks,           \* continuations of settled promises, in order
    activeCount,          \* the count last sent on 'activeAutomationsCount'
    config,               \* isConfigured of the configuration file config.json
    complete,             \* the completeSetup command: its position, the id
                          \* it acts on and the error it threw
    printerName,          \* this.printerName
    printSettings,        \* this.printSettings
    settingsFile,         \* settings.json: whether it exists and its printSettings
    startup               \* the positions of loadSettings() and
                          \* initializePrinter(), started by the constructor

vars == << isReauthenticating, runningAutomations, pendingAutomations,
           completedResults, oldResults, authBrowser, authOpen, auto, cycles,
           calls, walls, lastResult, microtasks, activeCount, config,
           complete, printerName, printSettings, settingsFile, startup >>

\* the state of the printer settings
printVars == << printerName, printSettings, settingsFile, startup >>

\* no completeSetup command has been received
NoComplete == [pc |-> "idle", id |-> 0, error |-> "", closed |-> FALSE]

\* private printSettings: PrintSettings = { printer: '', ..., copies: 1, ... }
DefaultPrintSettings == [printer |-> "", copies |-> 1]

\* settings.json does not exist
NoSettingsFile == [exists |-> FALSE, printSettings |-> DefaultPrintSettings]

\* loadSettings() and initializePrinter() have ended, without a settings
\* file and without a default printer
StartupOver ==
    /\ printerName = ""
    /\ printSettings = DefaultPrintSettings
    /\ settingsFile = NoSettingsFile
    /\ startup = [loadSettings |-> "done", initializePrinter |-> "done"]

\* ------------------------------------------------------------- results
NoResult == [kind |-> "none", val |-> ""]
Fnsku(f) == [kind |-> "fnsku", val |-> f]
\* { error: error instanceof Error ? error.message : 'Unknown error occurred' }
ErrorResult(m) == [kind |-> "error", val |-> m]

ErrMissing   == "Missing required parameters for listing creation"
ErrPortal    == "portal interaction failed"
ErrLaunch    == "browser launch failed"
ErrCancelled == "Authentication cancelled"
ErrWait      == "Reauth wait timeout"
ErrPoll      == "Timed out waiting for automation result"
ErrLogin     == "login wait failed"
ErrSetup     == "Setup failed"

\* ------------------------------------------------- Map / array helpers
SeqToSet(s) == { s[n] : n \in 1..Len(s) }

\* a delete that leaves the map as it is
SeqRemove_Nothing(s, x) == s

RECURSIVE SeqRemove(_, _)
SeqRemove(s, x) ==
    IF s = <<>> THEN <<>>
    ELSE IF Head(s) = x THEN SeqRemove(Tail(s), x)
    ELSE <<Head(s)>> \o SeqRemove(Tail(s), x)

\* index of x in s, 0 when absent
IndexOf(s, x) ==
    IF \E n \in 1..Len(s) : s[n] = x
    THEN CHOOSE n \in 1..Len(s) : s[n] = x
    ELSE 0

\* this.completedResults.has(id)
ResultsHas(cr, id) == \E n \in 1..Len(cr) : cr[n].id = id

\* this.completedResults.get(id); NoResult stands for undefined
ResultsGet(cr, id) ==
    IF ResultsHas(cr, id)
    THEN cr[CHOOSE n \in 1..Len(cr) : cr[n].id = id].res
    ELSE NoResult

\* this.completedResults.set(id, res): a Map keeps the position of a key it
\* already holds and appends a new key
ResultsSet(cr, id, res) ==
    IF ResultsHas(cr, id)
    THEN [n \in 1..Len(cr) |-> IF cr[n].id = id THEN [id |-> id, res |-> res] ELSE cr[n]]
    ELSE Append(cr, [id |-> id, res |-> res])

\* cleanupCompletedResults: keeps the entries whose 1-based position is below
\* MAX_COMPLETED_RESULTS; the `old` earlier entries come first
ResultsKeep(old, cr) ==
    LET room == MAX_COMPLETED_RESULTS - 1 - old
    IN  IF room <= 0 THEN <<>>
        ELSE IF Len(cr) <= room THEN cr
        ELSE SubSeq(cr, 1, room)

CleanupCompletedResults(old, cr) == ResultsKeep(old, cr)

\* size of this.completedResults
ResultsSize == oldResults + Len(completedResults)

\* a lookup that reads the cache only
GetAutomationResult_CacheOnly(id) == ResultsGet(completedResults, id)

\* getAutomationResult(id): the live session's result, else the cached one,
\* else null (NoResult)
GetAutomationResult(id) ==
    IF id \in SeqToSet(runningAutomations) /\ auto[id].result.kind # "none"
    THEN auto[id].result
    ELSE ResultsGet(completedResults, id)

\* ------------------------------------------------------------ requests
\* if (!params?.asin || !params?.sku || !params?.price)
MissingParams(req) == req.asin = "" \/ req.sku = "" \/ req.price = 0

\* a merge that keeps the details as they were
MergeDetails_Keep(d, params) == d

\* details: {...automation.status.details, ...params} in handleCreateListing:
\* every parameter the request carries replaces the detail of that name
MergeDetails(d, params) ==
    [ asin           |-> IF params.asin # "" THEN params.asin ELSE d.asin,
      sku            |-> IF params.sku # "" THEN params.sku ELSE d.sku,
      price          |-> IF params.price # 0 THEN params.price ELSE d.price,
      condition      |-> IF params.condition # "" THEN params.condition ELSE d.condition,
      conditionNotes |-> IF params.conditionNotes # "" THEN params.conditionNotes
                         ELSE d.conditionNotes ]

\* const originalRequest = {type: 'createListing', params: {sku, asin, price,
\* condition, conditionNotes}} read from automation.status.details
OriginalRequest(d) ==
    [ sku            |-> d.sku,
      asin           |-> d.asin,
      price          |-> d.price,
      condition      |-> d.condition,
      conditionNotes |-> d.conditionNotes ]

\* ------------------------------------------------------------ sessions
\* who awaits the runAutomation of a session: an external startAutomation
\* call, or the retry of a pending entry by retryPendingAutomations
CallCaller(c) == [kind |-> "call", call |-> c, cycle |-> 0, originalId |-> 0]
RetryCaller(k, p) ==
    [kind |-> "retry", call |-> p.from, cycle |-> k, originalId |-> p.originalId]

\* const id = uuidv4(): a fresh identifier
NextId == Len(auto) + 1

\* the object createAutomation returns (status running, details sku and
\* asin), while its browser is still being launched.  timer is the state of
\* the checkTimeout chain of the session: none (no chain was started), armed
\* (a check is scheduled), cleared (the first check was cancelled by
\* clearTimeout), dead (a check returned without scheduling the
\* next one), fired (the check found the time used up and awaits the close
\* of the browser), done (that cleanup has ended).  closes counts the calls
\* of browser.close() made by the cleanupAutomation that the session's run
\* awaits.
NewAutomation(req, caller) ==
    [ pc      |-> "launch",
      request |-> req,
      details |-> [asin |-> req.asin, sku |-> req.sku, price |-> 0,
                   condition |-> "", conditionNotes |-> ""],
      status  |-> "running",
      result  |-> NoResult,
      ret     |-> NoResult,
      caller  |-> caller,
      timer   |-> "none",
      closes  |-> 0 ]

Live(i) == i \in SeqToSet(runningAutomations)

Idle == microtasks = <<>>

\* the browser of session i has not been closed by the cleanup of its timer
BrowserOpen(i) ==
    /\ auto[i].timer # "done"
    /\ ~(complete.id = i /\ complete.closed)

\* let retries = 3 in cleanupAutomation
CloseRetries == 3

\* a cleanupAutomation that stores whether or not the session is in the map
CleanupStore_Always(ra, cr, i, res) ==
    IF res.kind # "none" /\ ~ResultsHas(cr, i) THEN ResultsSet(cr, i, res) ELSE cr

\* cleanupAutomation(i) up to its first await, for a session with result
\* res: nothing when the session is not in the map ra; otherwise the result
\* is stored when there is one and the cache cr does not hold the id
CleanupStore(ra, cr, i, res) ==
    IF i \in SeqToSet(ra) /\ res.kind # "none" /\ ~ResultsHas(cr, i)
    THEN ResultsSet(cr, i, res)
    ELSE cr

\* an end of run that writes its status into every session
RunEnd_StatusAll(au, ra, cr, mt, i, res) ==
    LET st   == IF res.kind = "fnsku" THEN "completed" ELSE "error"
        cr1  == CleanupCompletedResults(oldResults, ResultsSet(cr, i, res))
        live == i \in SeqToSet(ra)
        cr2  == CleanupStore(ra, cr1, i, res)
    IN  [ au |-> [j \in 1..Len(au) |->
                    IF j = i
                    THEN [au[j] EXCEPT !.status = st, !.result = res, !.ret = res,
                                       !.pc = IF live THEN "run_cleanup" ELSE "returning",
                                       !.closes = IF live THEN 1 ELSE au[i].closes]
                    ELSE [au[j] EXCEPT !.status = st]],
          cr |-> cr2,
          mt |-> IF live THEN mt ELSE Append(mt, [t |-> "RunReturned", id |-> i]) ]

\* The end of runAutomation for session i with result res: the status
\* update (completed / error), the result stored in the session and in
\* completedResults, cleanupCompletedResults, and the synchronous part of the
\* cleanupAutomation of the finally block, which stores the result again
\* when the cache does not hold it and then awaits browser.close().  A session
\* that is no longer in the map returns to its caller without an await.
RunEnd(au, ra, cr, mt, i, res) ==
    LET st   == IF res.kind = "fnsku" THEN "completed" ELSE "error"
        cr1  == CleanupCompletedResults(oldResults, ResultsSet(cr, i, res))
        live == i \in SeqToSet(ra)
        cr2  == CleanupStore(ra, cr1, i, res)
    IN  [ au |-> [au EXCEPT ![i].status = st, ![i].result = res, ![i].ret = res,
                            ![i].pc = IF live THEN "run_cleanup" ELSE "returning",
                            ![i].closes = IF live THEN 1 ELSE au[i].closes],
          cr |-> cr2,
          mt |-> IF live THEN mt ELSE Append(mt, [t |-> "RunReturned", id |-> i]) ]

\* startAutomation(request), up to its first await
StartAutomation(c, req) ==
    /\ Idle
    /\ calls[c].state = "idle"
    /\ IF isReauthenticating
       THEN /\ pendingAutomations' =
                 Append(pendingAutomations, [request |-> req, originalId |-> 0, from |-> c])
            /\ calls' = [calls EXCEPT ![c].state = "resolved", ![c].value = -1,
                                      ![c].request = req, ![c].error = ""]
            /\ UNCHANGED auto
       ELSE /\ auto' = Append(auto, NewAutomation(req, CallCaller(c)))
            /\ calls' = [calls EXCEPT ![c].state = "active", ![c].value = NextId,
                                      ![c].request = req, ![c].error = ""]
            /\ UNCHANGED pendingAutomations
    /\ UNCHANGED << isReauthenticating, runningAutomations, completedResults, oldResults,
                    authBrowser, authOpen, cycles, walls, lastResult, microtasks >>
    /\ UNCHANGED activeCount
    /\ UNCHANGED << config, complete >>
    /\ UNCHANGED printVars

\* startAutomation calls setupAutomationTimeout for the session it created;
\* retryPendingAutomations does not
SetupAutomationTimeout(caller) == IF caller.kind = "call" THEN "armed" ELSE "none"

\* a cleanup whose clearTimeout stops no check
ClearFirstTimeout_Stale(t) == t

\* clearTimeout(automation.timeoutId) in a cleanupAutomation that runs before
\* the first check of the chain: automation.timeoutId is the id of that
\* first check, which is cancelled.  Once a check has run and scheduled the
\* next one, automation.timeoutId is the id of a check that has run
\* (checkTimeout assigns its local timeoutId only) and clearTimeout stops
\* nothing: the timer of a session whose run awaits a portal operation is
\* left as it is by the cleanup.
ClearFirstTimeout(t) == IF t = "armed" THEN "cleared" ELSE t

\* createAutomation has returned: the session is put in the map and
\* runAutomation -> handleCreateListing runs up to page.goto.  The parameter
\* check of handleCreateListing comes first and throws into the catch of
\* runAutomation.
Created(i) ==
    /\ Idle
    /\ i \in 1..Len(auto)
    /\ auto[i].pc = "launch"
    /\ LET ra == Append(runningAutomations, i)
           au == [auto EXCEPT ![i].timer = SetupAutomationTimeout(auto[i].caller)]
       IN  /\ runningAutomations' = ra
           /\ IF MissingParams(auto[i].request)
              THEN LET e == RunEnd([au EXCEPT ![i].timer = ClearFirstTimeout(@)],
                                   ra, completedResults, microtasks, i,
                                   ErrorResult(ErrMissing))
                   IN  /\ auto' = e.au
                       /\ completedResults' = e.cr
                       /\ microtasks' = e.mt
              ELSE /\ auto' = [au EXCEPT ![i].pc = "goto",
                                         ![i].details = MergeDetails(auto[i].details,
                                                                    auto[i].request)]
                   /\ UNCHANGED << completedResults, microtasks >>
    /\ UNCHANGED << isReauthenticating, pendingAutomations, oldResults, authBrowser,
                    authOpen, cycles, calls, walls, lastResult >>
    /\ activeCount' = IF auto[i].caller.kind = "call"
                      THEN Len(runningAutomations') ELSE activeCount
    /\ UNCHANGED << config, complete >>
    /\ UNCHANGED printVars

\* page.goto succeeded and the page is not the login page
GotoOk(i) ==
    /\ Idle
    /\ i \in 1..Len(auto)
    /\ BrowserOpen(i)
    /\ auto[i].pc = "goto"
    /\ auto' = [auto EXCEPT ![i].pc = "script"]
    /\ UNCHANGED << isReauthenticating, runningAutomations, pendingAutomations,
                    completedResults, oldResults, authBrowser, authOpen, cycles,
                    calls, walls, lastResult, microtasks >>
    /\ UNCHANGED activeCount
    /\ UNCHANGED << config, complete >>
    /\ UNCHANGED printVars

\* a navigation, an element wait, a click or the extraction of the
\* identifier throws inside the try of handleCreateListing
PortalFail(i) ==
    /\ Idle
    /\ i \in 1..Len(auto)
    /\ auto[i].pc \in {"goto", "script", "prep"}
    /\ LET e == RunEnd(auto, runningAutomations, completedResults, microtasks, i,
                       ErrorResult(ErrPortal))
       IN  /\ auto' = e.au
           /\ completedResults' = e.cr
           /\ microtasks' = e.mt
    /\ UNCHANGED << isReauthenticating, runningAutomations, pendingAutomations,
                    oldResults, authBrowser, authOpen, cycles, calls, walls, lastResult >>
    /\ UNCHANGED activeCount
    /\ UNCHANGED << config, complete >>
    /\ UNCHANGED printVars

\* The scripted steps ran and the text of the 'fnsku' element was read.
\* With a match automation.result is set and the steps after it (prep and
\* dimensions) begin; without one handleCreateListing throws 'Could not
\* extract valid FNSKU from page', a portal failure like those of PortalFail.
ScriptOk(i) ==
    /\ Idle
    /\ i \in 1..Len(auto)
    /\ BrowserOpen(i)
    /\ auto[i].pc = "script"
    /\ \E text \in PageTexts(i) :
          LET fnskuValue == MatchFnsku(text)
          IN  IF fnskuValue = ""
              THEN LET e == RunEnd(auto, runningAutomations, completedResults,
                                   microtasks, i, ErrorResult(ErrPortal))
                   IN  /\ auto' = e.au
                       /\ completedResults' = e.cr
                       /\ microtasks' = e.mt
              ELSE /\ auto' = [auto EXCEPT ![i].pc = "prep",
                                           ![i].result = Fnsku(fnskuValue)]
                   /\ UNCHANGED << completedResults, microtasks >>
    /\ UNCHANGED << isReauthenticating, runningAutomations, pendingAutomations,
                    oldResults, authBrowser, authOpen, cycles, calls, walls, lastResult >>
    /\ UNCHANGED activeCount
    /\ UNCHANGED << config, complete >>
    /\ UNCHANGED printVars

\* The steps after the extraction ran and handleCreateListing awaits
\* cleanupAutomation(automation.id), which stores the result of a session
\* that is in the map when the cache does not hold its id and then awaits
\* browser.close().
PrepOk(i) ==
    /\ Idle
    /\ i \in 1..Len(auto)
    /\ BrowserOpen(i)
    /\ auto[i].pc = "prep"
    /\ auto' = [auto EXCEPT ![i].pc = "final_close",
                             ![i].closes = IF Live(i) THEN 1 ELSE auto[i].closes]
    /\ completedResults' =
          CleanupStore(runningAutomations, completedResults, i, auto[i].result)
    /\ UNCHANGED << isReauthenticating, runningAutomations, pendingAutomations,
                    oldResults, authBrowser, authOpen, cycles, calls, walls,
                    lastResult, microtasks >>
    /\ UNCHANGED activeCount
    /\ UNCHANGED << config, complete >>
    /\ UNCHANGED printVars

\* the browser of that cleanupAutomation has closed: the session leaves the
\* map, handleCreateListing returns its result and runAutomation ends
FinalCloseDone(i) ==
    /\ Idle
    /\ i \in 1..Len(auto)
    /\ auto[i].pc = "final_close"
    /\ LET ra == SeqRemove(runningAutomations, i)
           e  == RunEnd(auto, ra, completedResults, microtasks, i, auto[i].result)
       IN  /\ runningAutomations' = ra
           /\ auto' = e.au
           /\ completedResults' = e.cr
           /\ microtasks' = e.mt
    /\ UNCHANGED << isReauthenticating, pendingAutomations, oldResults, authBrowser,
                    authOpen, cycles, calls, walls, lastResult >>
    /\ activeCount' = IF Live(i) THEN Len(runningAutomations') ELSE activeCount
    /\ UNCHANGED << config, complete >>
    /\ UNCHANGED printVars

\* the browser of the cleanupAutomation in the finally block of runAutomation
\* has closed (or could not be closed): the session leaves the map and
\* runAutomation returns
RunCleanupDone(i) ==
    /\ Idle
    /\ i \in 1..Len(auto)
    /\ auto[i].pc = "run_cleanup"
    /\ runningAutomations' = SeqRemove(runningAutomations, i)
    /\ auto' = [auto EXCEPT ![i].pc = "returning"]
    /\ microtasks' = Append(microtasks, [t |-> "RunReturned", id |-> i])
    /\ UNCHANGED << isReauthenticating, pendingAutomations, completedResults,
                    oldResults, authBrowser, authOpen, cycles, calls, walls, lastResult >>
    /\ activeCount' = IF Live(i) THEN Len(runningAutomations') ELSE activeCount
    /\ UNCHANGED << config, complete >>
    /\ UNCHANGED printVars

\* the positions at which a session's run awaits cleanupAutomation
CleanupPcs == {"final_close", "run_cleanup", "hlr_cleanup"}

\* browser.close() throws inside the retry loop of cleanupAutomation and
\* attempts are left: retries--, the 500 ms wait, and the next
\* browser.close().  A failure of the last attempt ends the loop, and the
\* finally block removes the session as after a close that succeeded.
CloseFail(i) ==
    /\ Idle
    /\ i \in 1..Len(auto)
    /\ Live(i)
    /\ auto[i].pc \in CleanupPcs
    /\ auto[i].closes < CloseRetries
    /\ auto' = [auto EXCEPT ![i].closes = auto[i].closes + 1]
    /\ UNCHANGED << isReauthenticating, runningAutomations, pendingAutomations,
                    completedResults, oldResults, authBrowser, authOpen, cycles,
                    calls, walls, lastResult, microtasks >>
    /\ UNCHANGED activeCount
    /\ UNCHANGED << config, complete >>
    /\ UNCHANGED printVars

\* createAutomation throws (the browser, its context or its page could not
\* be created).  startAutomation rethrows; the retry of a pending entry
\* catches and stores the error under the entry's originalId.
LaunchFail(i) ==
    /\ Idle
    /\ i \in 1..Len(auto)
    /\ auto[i].pc = "launch"
    /\ auto' = [auto EXCEPT ![i].pc = "failed", ![i].ret = ErrorResult(ErrLaunch)]
    /\ LET cl == auto[i].caller
       IN  IF cl.kind = "call"
           THEN /\ calls' = [calls EXCEPT ![cl.call].state = "rejected",
                                          ![cl.call].error = ErrLaunch]
                /\ UNCHANGED << completedResults, cycles, microtasks >>
           ELSE /\ completedResults' =
                     IF cl.originalId # 0
                     THEN ResultsSet(completedResults, cl.originalId, ErrorResult(ErrLaunch))
                     ELSE completedResults
                /\ cycles' = [cycles EXCEPT ![cl.cycle].outstanding = @ \ {i}]
                /\ microtasks' =
                     IF cycles[cl.cycle].outstanding = {i}
                     THEN Append(microtasks, [t |-> "RetrySettled", id |-> cl.cycle])
                     ELSE microtasks
                /\ UNCHANGED calls
    /\ UNCHANGED << isReauthenticating, runningAutomations, pendingAutomations,
                    oldResults, authBrowser, authOpen, walls, lastResult >>
    /\ UNCHANGED activeCount
    /\ UNCHANGED << config, complete >>
    /\ UNCHANGED printVars

\* ------------------------------------------------------ session timer
\* the sessions whose timer has found the time used up
Expired == { j \in 1..Len(auto) : auto[j].timer \in {"fired", "done"} }

\* checkTimeout runs while the flag is set: it notes pausedAt and returns
\* without scheduling the next check
TimerPaused(i) ==
    /\ Idle
    /\ i \in 1..Len(auto)
    /\ auto[i].timer = "armed"
    /\ isReauthenticating
    /\ auto' = [auto EXCEPT ![i].timer = "dead"]
    /\ UNCHANGED << isReauthenticating, runningAutomations, pendingAutomations,
                    completedResults, oldResults, authBrowser, authOpen, cycles,
                    calls, walls, lastResult, microtasks >>
    /\ UNCHANGED activeCount
    /\ UNCHANGED << config, complete >>
    /\ UNCHANGED printVars

\* checkTimeout runs with the flag clear, the time used up and the session
\* in the map: the status becomes error and cleanupAutomation(id) runs up to
\* browser.close(), storing automation.result when the cache lacks the id
TimerExpire(i) ==
    /\ Idle
    /\ i \in 1..Len(auto)
    /\ auto[i].timer = "armed"
    /\ ~isReauthenticating
    /\ Live(i)
    /\ Cardinality(Expired) < MaxExpiries
    /\ auto' = [auto EXCEPT ![i].timer = "fired", ![i].status = "error"]
    /\ completedResults' =
          CleanupStore(runningAutomations, completedResults, i, auto[i].result)
    /\ UNCHANGED << isReauthenticating, runningAutomations, pendingAutomations,
                    oldResults, authBrowser, authOpen, cycles, calls, walls,
                    lastResult, microtasks >>
    /\ UNCHANGED activeCount
    /\ UNCHANGED << config, complete >>
    /\ UNCHANGED printVars

\* the browser.close() of that cleanupAutomation has returned: the session
\* leaves the map
TimerCleanupDone(i) ==
    /\ Idle
    /\ i \in 1..Len(auto)
    /\ auto[i].timer = "fired"
    /\ auto' = [auto EXCEPT ![i].timer = "done"]
    /\ runningAutomations' = SeqRemove(runningAutomations, i)
    /\ UNCHANGED << isReauthenticating, pendingAutomations, completedResults,
                    oldResults, authBrowser, authOpen, cycles, calls, walls,
                    lastResult, microtasks >>
    /\ activeCount' = IF Live(i) THEN Len(runningAutomations') ELSE activeCount
    /\ UNCHANGED << config, complete >>
    /\ UNCHANGED printVars

\* ------------------------------------------------- re-authentication
\* updateAutomationStatus(automation, {status: 'paused', ...}) for the
\* sessions of `ids`
PauseAll(au, ids) ==
    [j \in 1..Len(au) |-> IF j \in ids THEN [au[j] EXCEPT !.status = "paused"] ELSE au[j]]

\* a resume loop that leaves every status as it is
ResumeAll_None(au, ra) == au

\* the resume loop of retryPendingAutomations: every session in the map whose
\* status is paused is set to running
ResumeAll(au, ra) ==
    [j \in 1..Len(au) |->
        IF j \in SeqToSet(ra) /\ au[j].status = "paused"
        THEN [au[j] EXCEPT !.status = "running"]
        ELSE au[j]]

\* the cycle that session i started, 0 when it started none
CycleOf(i) ==
    IF \E k \in 1..Len(cycles) : cycles[k].trigger = i
    THEN CHOOSE k \in 1..Len(cycles) : cycles[k].trigger = i
    ELSE 0

\* The polling loop of handleCreateListing after handleLoginRequired has
\* returned: completedResults.get(automation.id) resolves with the
\* identifier, rejects with the error, or is looked at again a second later.
PollCheck(au, ra, cr, mt, i) ==
    LET r == ResultsGet(cr, i)
    IN  IF r.kind = "fnsku" /\ r.val # ""
        THEN RunEnd(au, ra, cr, mt, i, Fnsku(r.val))
        ELSE IF r.kind = "error"
        THEN RunEnd(au, ra, cr, mt, i,
                    ErrorResult(IF r.val = "" THEN "Unknown error occurred" ELSE r.val))
        ELSE [au |-> [au EXCEPT ![i].pc = "poll"], cr |-> cr, mt |-> mt]

\* page.goto ended on the login page: handleLoginRequired(automation.id).
\* With the flag set the session polls the flag.  Otherwise it sets the flag
\* and walks the map in insertion order, pausing the sessions before its own
\* entry, captures its request from its status details and awaits the
\* cleanupAutomation of its own session.
GotoLoginWall(i) ==
    /\ Idle
    /\ i \in 1..Len(auto)
    /\ BrowserOpen(i)
    /\ walls < MaxWalls
    /\ auto[i].pc = "goto"
    /\ walls' = walls + 1
    /\ UNCHANGED lastResult
    /\ IF isReauthenticating
       THEN /\ auto' = [auto EXCEPT ![i].pc = "hlr_wait"]
            /\ UNCHANGED << isReauthenticating, cycles >>
       ELSE LET idx    == IndexOf(runningAutomations, i)
                before == { runningAutomations[n] : n \in 1..(idx - 1) }
            IN  /\ isReauthenticating' = TRUE
                /\ auto' = [PauseAll(auto, before) EXCEPT
                                ![i].pc = "hlr_cleanup",
                                ![i].closes = IF Live(i) THEN 1 ELSE auto[i].closes]
                /\ cycles' = Append(cycles,
                      [ trigger         |-> i,
                        captured        |-> [request |-> OriginalRequest(auto[i].details),
                                             originalId |-> i, from |-> 0],
                        visited         |-> before,
                        popup           |-> "none",
                        view            |-> "login",
                        handler         |-> FALSE,
                        browserLaunched |-> FALSE,
                        promise         |-> "none",
                        error           |-> "",
                        rpc             |-> "idle",
                        outstanding     |-> {},
                        cancelled       |-> FALSE ])
    /\ UNCHANGED << runningAutomations, pendingAutomations, completedResults,
                    oldResults, authBrowser, authOpen, calls, microtasks >>
    /\ UNCHANGED activeCount
    /\ UNCHANGED << config, complete >>
    /\ UNCHANGED printVars

\* The browser of the triggering session has closed: the session leaves the
\* map, the loop pauses the sessions it had not reached, the pending queue
\* becomes the captured request alone, the modal is created, the
\* 'reauth-response' listener and the 'closed' listener are registered.
HlrCleanupDone(i) ==
    /\ Idle
    /\ i \in 1..Len(auto)
    /\ auto[i].pc = "hlr_cleanup"
    /\ LET k    == CycleOf(i)
           ra   == SeqRemove(runningAutomations, i)
           rest == SeqToSet(ra) \ cycles[k].visited
       IN  /\ runningAutomations' = ra
           /\ auto' = [PauseAll(auto, rest) EXCEPT ![i].pc = "hlr_modal"]
           /\ pendingAutomations' = << cycles[k].captured >>
           /\ cycles' = [cycles EXCEPT ![k].popup = "open", ![k].handler = TRUE,
                                       ![k].promise = "pending",
                                       ![k].visited = @ \cup rest]
    /\ UNCHANGED << isReauthenticating, completedResults, oldResults, authBrowser,
                    authOpen, calls, walls, lastResult, microtasks >>
    /\ activeCount' = IF Live(i) THEN Len(runningAutomations') ELSE activeCount
    /\ UNCHANGED << config, complete >>
    /\ UNCHANGED printVars

\* the flag poll of a waiting session finds the flag clear: handleLoginRequired
\* returns and handleCreateListing looks for a result under its own id
HlrWaitDone(i) ==
    /\ Idle
    /\ i \in 1..Len(auto)
    /\ auto[i].pc = "hlr_wait"
    /\ ~isReauthenticating
    /\ LET e == PollCheck(auto, runningAutomations, completedResults, microtasks, i)
       IN  /\ auto' = e.au
           /\ completedResults' = e.cr
           /\ microtasks' = e.mt
    /\ UNCHANGED << isReauthenticating, runningAutomations, pendingAutomations,
                    oldResults, authBrowser, authOpen, cycles, calls, walls, lastResult >>
    /\ UNCHANGED activeCount
    /\ UNCHANGED << config, complete >>
    /\ UNCHANGED printVars

\* five minutes pass with the flag still set: 'Reauth wait timeout'
HlrWaitTimeout(i) ==
    /\ Idle
    /\ i \in 1..Len(auto)
    /\ auto[i].pc = "hlr_wait"
    /\ isReauthenticating
    /\ LET e == RunEnd(auto, runningAutomations, completedResults, microtasks, i,
                       ErrorResult(ErrWait))
       IN  /\ auto' = e.au
           /\ completedResults' = e.cr
           /\ microtasks' = e.mt
    /\ UNCHANGED << isReauthenticating, runningAutomations, pendingAutomations,
                    oldResults, authBrowser, authOpen, cycles, calls, walls, lastResult >>
    /\ UNCHANGED activeCount
    /\ UNCHANGED << config, complete >>
    /\ UNCHANGED printVars

\* a later look of the polling loop finds a result
PollTick(i) ==
    /\ Idle
    /\ i \in 1..Len(auto)
    /\ auto[i].pc = "poll"
    /\ ResultsGet(completedResults, i).kind # "none"
    /\ LET e == PollCheck(auto, runningAutomations, completedResults, microtasks, i)
       IN  /\ auto' = e.au
           /\ completedResults' = e.cr
           /\ microtasks' = e.mt
    /\ UNCHANGED << isReauthenticating, runningAutomations, pendingAutomations,
                    oldResults, authBrowser, authOpen, cycles, calls, walls, lastResult >>
    /\ UNCHANGED activeCount
    /\ UNCHANGED << config, complete >>
    /\ UNCHANGED printVars

\* five minutes pass without a result: 'Timed out waiting for automation result'
PollTimeout(i) ==
    /\ Idle
    /\ i \in 1..Len(auto)
    /\ auto[i].pc = "poll"
    /\ ResultsGet(completedResults, i).kind = "none"
    /\ LET e == RunEnd(auto, runningAutomations, completedResults, microtasks, i,
                       ErrorResult(ErrPoll))
       IN  /\ auto' = e.au
           /\ completedResults' = e.cr
           /\ microtasks' = e.mt
    /\ UNCHANGED << isReauthenticating, runningAutomations, pendingAutomations,
                    oldResults, authBrowser, authOpen, cycles, calls, walls, lastResult >>
    /\ UNCHANGED activeCount
    /\ UNCHANGED << config, complete >>
    /\ UNCHANGED printVars

\* ----------------------------------------------- the modal and its events
Cycles == 1..Len(cycles)

\* the continuations of the handleLoginRequired promises of the cycles of
\* `ks`, in the order in which the listeners ran
RECURSIVE SettledTasks(_, _)
SettledTasks(ks, from) ==
    IF from > Len(cycles) THEN <<>>
    ELSE (IF from \in ks THEN << [t |-> "HlrSettled", id |-> cycles[from].trigger] >>
                         ELSE <<>>)
         \o SettledTasks(ks, from + 1)

\* The operator clicks "Login Now" in the modal of cycle k: the renderer
\* sends 'reauth-response' 'login'.  Every listener registered with
\* ipcMain.once('reauth-response') runs and is removed; each sets its
\* browserLaunched and calls startReauthentication(popup), which runs up to
\* firefox.launch.
RespondLogin(k) ==
    /\ Idle
    /\ k \in Cycles
    /\ cycles[k].popup = "open"
    /\ cycles[k].view = "login"
    /\ cycles' = [j \in Cycles |->
          LET c0 == IF j = k THEN [cycles[j] EXCEPT !.view = "loading"] ELSE cycles[j]
          IN  IF c0.handler
              THEN [c0 EXCEPT !.handler = FALSE, !.browserLaunched = TRUE,
                              !.rpc = "launching"]
              ELSE c0]
    /\ UNCHANGED << isReauthenticating, runningAutomations, pendingAutomations,
                    completedResults, oldResults, authBrowser, authOpen, auto,
                    calls, walls, lastResult, microtasks >>
    /\ UNCHANGED activeCount
    /\ UNCHANGED << config, complete >>
    /\ UNCHANGED printVars

\* The operator clicks "Cancel" (either view of the modal of cycle k): the
\* renderer sends 'reauth-response' 'cancel'.  Every registered listener runs
\* and is removed: popup.close() (which throws on a destroyed window, ending
\* that listener), the queue is emptied, the flag cleared, the promise rejected.
RespondCancel(k) ==
    /\ Idle
    /\ k \in Cycles
    /\ cycles[k].popup = "open"
    /\ LET H   == { j \in Cycles : cycles[j].handler }
           Eff == { j \in H : cycles[j].popup # "closed" }
           Rej == { j \in Eff : cycles[j].promise = "pending" }
       IN  /\ cycles' = [j \in Cycles |->
                 IF j \in Eff
                 THEN [cycles[j] EXCEPT
                         !.handler = FALSE, !.popup = "closing", !.cancelled = TRUE,
                         !.promise = IF j \in Rej THEN "rejected" ELSE @,
                         !.error = IF j \in Rej THEN ErrCancelled ELSE @]
                 ELSE IF j \in H THEN [cycles[j] EXCEPT !.handler = FALSE]
                 ELSE cycles[j]]
           /\ pendingAutomations' = IF Eff # {} THEN <<>> ELSE pendingAutomations
           /\ isReauthenticating' = IF Eff # {} THEN FALSE ELSE isReauthenticating
           /\ microtasks' = microtasks \o SettledTasks(Rej, 1)
    /\ UNCHANGED << runningAutomations, completedResults, oldResults, authBrowser,
                    authOpen, auto, calls, walls, lastResult >>
    /\ UNCHANGED activeCount
    /\ UNCHANGED << config, complete >>
    /\ UNCHANGED printVars

\* popup.on('closed'): if (this.isReauthenticating && !browserLaunched) the
\* queue is emptied, the flag cleared and the promise rejected
ClosedHandler(k) ==
    LET eff == isReauthenticating /\ ~cycles[k].browserLaunched
        rej == eff /\ cycles[k].promise = "pending"
    IN  /\ cycles' = [cycles EXCEPT
              ![k].popup = "closed",
              ![k].cancelled = IF eff THEN TRUE ELSE @,
              ![k].promise = IF rej THEN "rejected" ELSE @,
              ![k].error = IF rej THEN ErrCancelled ELSE @]
        /\ pendingAutomations' = IF eff THEN <<>> ELSE pendingAutomations
        /\ isReauthenticating' = IF eff THEN FALSE ELSE isReauthenticating
        /\ microtasks' = IF rej
                         THEN Append(microtasks, [t |-> "HlrSettled", id |-> cycles[k].trigger])
                         ELSE microtasks

\* the operator closes the modal window itself
OperatorClose(k) ==
    /\ Idle
    /\ k \in Cycles
    /\ cycles[k].popup = "open"
    /\ ClosedHandler(k)
    /\ UNCHANGED << runningAutomations, completedResults, oldResults, authBrowser,
                    authOpen, auto, calls, walls, lastResult >>
    /\ UNCHANGED activeCount
    /\ UNCHANGED << config, complete >>
    /\ UNCHANGED printVars

\* a window on which popup.close() was called is destroyed and emits 'closed'
PopupClosed(k) ==
    /\ Idle
    /\ k \in Cycles
    /\ cycles[k].popup = "closing"
    /\ ClosedHandler(k)
    /\ UNCHANGED << runningAutomations, completedResults, oldResults, authBrowser,
                    authOpen, auto, calls, walls, lastResult >>
    /\ UNCHANGED activeCount
    /\ UNCHANGED << config, complete >>
    /\ UNCHANGED printVars

\* ------------------------------------------------- startReauthentication
\* firefox.launch returned: this.authBrowser is the new login browser, and
\* startReauthentication goes on to page.waitForURL
AuthLaunched(k) ==
    /\ Idle
    /\ k \in Cycles
    /\ cycles[k].rpc = "launching"
    /\ cycles' = [cycles EXCEPT ![k].rpc = "waitURL"]
    /\ authBrowser' = k
    /\ authOpen' = authOpen \cup {k}
    /\ UNCHANGED << isReauthenticating, runningAutomations, pendingAutomations,
                    completedResults, oldResults, auto, calls, walls, lastResult, microtasks >>
    /\ UNCHANGED activeCount
    /\ UNCHANGED << config, complete >>
    /\ UNCHANGED printVars

\* The launch, the navigation or the wait for the login URL throws (the wait
\* also when its browser was closed).  The outer catch closes
\* this.authBrowser, closes the popup unless destroyed, clears the flag and
\* rethrows; the listener's catch calls popup.close(), which throws on a
\* destroyed window, and only then reject(error).  The 'closed' listener of
\* this popup does nothing once browserLaunched is set, so the window is
\* recorded as closed at once.
AuthFail(k) ==
    /\ Idle
    /\ k \in Cycles
    /\ cycles[k].rpc \in {"launching", "waitURL"}
    /\ LET destroyed == cycles[k].popup = "closed"
           rej       == ~destroyed /\ cycles[k].promise = "pending"
       IN  /\ cycles' = [cycles EXCEPT
                 ![k].rpc = "failed",
                 ![k].popup = "closed",
                 ![k].promise = IF rej THEN "rejected" ELSE @,
                 ![k].error = IF rej THEN ErrLogin ELSE @]
           /\ microtasks' = IF rej
                            THEN Append(microtasks,
                                        [t |-> "HlrSettled", id |-> cycles[k].trigger])
                            ELSE microtasks
    /\ authOpen' = authOpen \ {authBrowser}
    /\ authBrowser' = 0
    /\ isReauthenticating' = FALSE
    /\ UNCHANGED << runningAutomations, pendingAutomations, completedResults,
                    oldResults, auto, calls, walls, lastResult >>
    /\ UNCHANGED activeCount
    /\ UNCHANGED << config, complete >>
    /\ UNCHANGED printVars

\* a retryPendingAutomations that leaves the flag as it is
LoginDetected_KeepsFlag(k) ==
    /\ Idle
    /\ k \in Cycles
    /\ cycles[k].rpc = "waitURL"
    /\ k \in authOpen
    /\ authOpen' = authOpen \ {authBrowser}
    /\ authBrowser' = 0
    /\ isReauthenticating' = isReauthenticating
    /\ pendingAutomations' = <<>>
    /\ LET n   == Len(pendingAutomations)
           new == [m \in 1..n |-> NewAutomation(pendingAutomations[m].request,
                                                RetryCaller(k, pendingAutomations[m]))]
       IN  /\ auto' = auto \o new
           /\ cycles' = [cycles EXCEPT
                 ![k].rpc = "retrying",
                 ![k].popup = "closed",
                 ![k].outstanding = (Len(auto) + 1)..(Len(auto) + n)]
           /\ microtasks' = IF n = 0
                            THEN Append(microtasks, [t |-> "RetrySettled", id |-> k])
                            ELSE microtasks
    /\ UNCHANGED << runningAutomations, completedResults, oldResults, calls, walls, lastResult >>
    /\ UNCHANGED activeCount
    /\ UNCHANGED << config, complete >>
    /\ UNCHANGED printVars

\* The login browser of cycle k reached the home page: the storage state is
\* saved, this.authBrowser is closed, the popup is closed unless destroyed,
\* and retryPendingAutomations runs up to the createAutomation of every
\* pending entry: it clears the flag, copies and empties the queue.
LoginDetected(k) ==
    /\ Idle
    /\ k \in Cycles
    /\ cycles[k].rpc = "waitURL"
    /\ k \in authOpen
    /\ authOpen' = authOpen \ {authBrowser}
    /\ authBrowser' = 0
    /\ isReauthenticating' = FALSE
    /\ pendingAutomations' = <<>>
    /\ LET n   == Len(pendingAutomations)
           new == [m \in 1..n |-> NewAutomation(pendingAutomations[m].request,
                                                RetryCaller(k, pendingAutomations[m]))]
       IN  /\ auto' = auto \o new
           /\ cycles' = [cycles EXCEPT
                 ![k].rpc = "retrying",
                 ![k].popup = "closed",
                 ![k].outstanding = (Len(auto) + 1)..(Len(auto) + n)]
           /\ microtasks' = IF n = 0
                            THEN Append(microtasks, [t |-> "RetrySettled", id |-> k])
                            ELSE microtasks
    /\ UNCHANGED << runningAutomations, completedResults, oldResults, calls, walls, lastResult >>
    /\ UNCHANGED activeCount
    /\ UNCHANGED << config, complete >>
    /\ UNCHANGED printVars

\* ------------------------------------------------------- continuations
\* runAutomation of session i has returned to its caller.  startAutomation
\* stores the result in the session and returns the id.  The retry of a
\* pending entry stores the result under the entry's originalId; when it was
\* the last retry of its cycle, Promise.allSettled resolves.
RunReturned ==
    /\ microtasks # <<>>
    /\ Head(microtasks).t = "RunReturned"
    /\ LET i  == Head(microtasks).id
           cl == auto[i].caller
       IN  IF cl.kind = "call"
           THEN /\ auto' = [auto EXCEPT ![i].pc = "done", ![i].result = auto[i].ret]
                /\ calls' = [calls EXCEPT ![cl.call].state = "resolved"]
                /\ microtasks' = Tail(microtasks)
                /\ UNCHANGED << completedResults, cycles >>
           ELSE /\ auto' = [auto EXCEPT ![i].pc = "done"]
                /\ completedResults' =
                     IF cl.originalId # 0
                     THEN ResultsSet(completedResults, cl.originalId, auto[i].ret)
                     ELSE completedResults
                /\ cycles' = [cycles EXCEPT ![cl.cycle].outstanding = @ \ {i}]
                /\ microtasks' =
                     IF cycles[cl.cycle].outstanding = {i}
                     THEN Append(Tail(microtasks), [t |-> "RetrySettled", id |-> cl.cycle])
                     ELSE Tail(microtasks)
                /\ UNCHANGED calls
    /\ UNCHANGED << isReauthenticating, runningAutomations, pendingAutomations,
                    oldResults, authBrowser, authOpen, walls, lastResult >>
    /\ UNCHANGED activeCount
    /\ UNCHANGED << config, complete >>
    /\ UNCHANGED printVars

\* Every retry of cycle k has settled: retryPendingAutomations resumes the
\* paused sessions and returns, startReauthentication returns, and the
\* listener resolves the promise of handleLoginRequired.
RetrySettled ==
    /\ microtasks # <<>>
    /\ Head(microtasks).t = "RetrySettled"
    /\ LET k == Head(microtasks).id
       IN  /\ auto' = ResumeAll(auto, runningAutomations)
           /\ cycles' = [cycles EXCEPT
                 ![k].rpc = "done",
                 ![k].promise = IF @ = "pending" THEN "resolved" ELSE @]
           /\ microtasks' =
                 IF cycles[k].promise = "pending"
                 THEN Append(Tail(microtasks), [t |-> "HlrSettled", id |-> cycles[k].trigger])
                 ELSE Tail(microtasks)
    /\ UNCHANGED << isReauthenticating, runningAutomations, pendingAutomations,
                    completedResults, oldResults, authBrowser, authOpen, calls, walls, lastResult >>
    /\ UNCHANGED activeCount
    /\ UNCHANGED << config, complete >>
    /\ UNCHANGED printVars

\* The promise handleLoginRequired(i) awaits has settled.  Resolved:
\* handleLoginRequired returns and handleCreateListing starts polling for
\* the retried result.  Rejected: the catch of handleLoginRequired clears the
\* flag and rethrows, into the catch of runAutomation.
HlrSettled ==
    /\ microtasks # <<>>
    /\ Head(microtasks).t = "HlrSettled"
    /\ LET i == Head(microtasks).id
           k == CycleOf(i)
           e == IF cycles[k].promise = "resolved"
                THEN PollCheck(auto, runningAutomations, completedResults,
                               Tail(microtasks), i)
                ELSE RunEnd(auto, runningAutomations, completedResults,
                            Tail(microtasks), i, ErrorResult(cycles[k].error))
       IN  /\ auto' = e.au
           /\ completedResults' = e.cr
           /\ microtasks' = e.mt
           /\ isReauthenticating' =
                 IF cycles[k].promise = "resolved" THEN isReauthenticating ELSE FALSE
    /\ UNCHANGED << runningAutomations, pendingAutomations, oldResults, authBrowser,
                    authOpen, cycles, calls, walls, lastResult >>
    /\ UNCHANGED activeCount
    /\ UNCHANGED << config, complete >>
    /\ UNCHANGED printVars

\* ------------------------------------------------------- specification
NoRequest == [asin |-> "", sku |-> "", price |-> 0,
              condition |-> "", conditionNotes |-> ""]

Init ==
    /\ isReauthenticating = FALSE
    /\ runningAutomations = <<>>
    /\ pendingAutomations = <<>>
    /\ completedResults = <<>>
    /\ oldResults \in {0, MAX_COMPLETED_RESULTS - 2}
    /\ authBrowser = 0
    /\ authOpen = {}
    /\ auto = <<>>
    /\ cycles = <<>>
    /\ calls = [c \in Calls |-> [state |-> "idle", value |-> 0,
                                 request |-> NoRequest, error |-> ""]]
    /\ walls = 0
    /\ lastResult = [id |-> 0, res |-> NoResult]
    /\ microtasks = <<>>
    /\ activeCount = 0
    /\ config = FALSE
    /\ complete = NoComplete
    /\ StartupOver

Sessions == 1..Len(auto)

Next ==
    \/ \E c \in Calls, req \in Requests : StartAutomation(c, req)
    \/ \E i \in Sessions : Created(i)
    \/ \E i \in Sessions : LaunchFail(i)
    \/ \E i \in Sessions : GotoOk(i)
    \/ \E i \in Sessions : PortalFail(i)
    \/ \E i \in Sessions : ScriptOk(i)
    \/ \E i \in Sessions : PrepOk(i)
    \/ \E i \in Sessions : FinalCloseDone(i)
    \/ \E i \in Sessions : RunCleanupDone(i)
    \/ \E i \in Sessions : GotoLoginWall(i)
    \/ \E i \in Sessions : HlrCleanupDone(i)
    \/ \E i \in Sessions : HlrWaitDone(i)
    \/ \E i \in Sessions : HlrWaitTimeout(i)
    \/ \E i \in Sessions : PollTick(i)
    \/ \E i \in Sessions : PollTimeout(i)
    \/ \E k \in Cycles : RespondLogin(k)
    \/ \E k \in Cycles : RespondCancel(k)
    \/ \E k \in Cycles : OperatorClose(k)
    \/ \E k \in Cycles : PopupClosed(k)
    \/ \E k \in Cycles : AuthLaunched(k)
    \/ \E k \in Cycles : AuthFail(k)
    \/ \E k \in Cycles : LoginDetected(k)
    \/ RunReturned
    \/ RetrySettled
    \/ HlrSettled

Spec == Init /\ [][Next]_vars

\* ------------------------------------------------- getAutomationResult
\* the ids a caller may ask for: every id issued so far and 0, never issued
QueryIds == 0..Len(auto)

\* getAutomationResult(id), called between two tasks of the event loop: the
\* method has no await before its return, reads the map and the cache and
\* writes nothing
GetResult(id) ==
    /\ Idle
    /\ lastResult' = [id |-> id, res |-> GetAutomationResult(id)]
    /\ UNCHANGED << isReauthenticating, runningAutomations, pendingAutomations,
                    completedResults, oldResults, authBrowser, authOpen, auto,
                    cycles, calls, walls, microtasks >>
    /\ UNCHANGED activeCount
    /\ UNCHANGED << config, complete >>
    /\ UNCHANGED printVars

\* The manager with callers that ask for results.  The cache starts empty,
\* the operator answers every modal with one of its buttons and the portal
\* shows its login page at most MaxQueryWalls times.
InitQuery == Init /\ oldResults = 0

NextQuery ==
    \/ \E c \in Calls, req \in Requests : StartAutomation(c, req)
    \/ \E i \in Sessions : Created(i)
    \/ \E i \in Sessions : LaunchFail(i)
    \/ \E i \in Sessions : GotoOk(i)
    \/ \E i \in Sessions : PortalFail(i)
    \/ \E i \in Sessions : ScriptOk(i)
    \/ \E i \in Sessions : PrepOk(i)
    \/ \E i \in Sessions : FinalCloseDone(i)
    \/ \E i \in Sessions : RunCleanupDone(i)
    \/ \E i \in Sessions : walls < MaxQueryWalls /\ GotoLoginWall(i)
    \/ \E i \in Sessions : HlrCleanupDone(i)
    \/ \E k \in Cycles : RespondLogin(k)
    \/ \E k \in Cycles : RespondCancel(k)
    \/ \E k \in Cycles : PopupClosed(k)
    \/ \E k \in Cycles : AuthLaunched(k)
    \/ \E k \in Cycles : AuthFail(k)
    \/ \E k \in Cycles : LoginDetected(k)
    \/ RunReturned
    \/ RetrySettled
    \/ HlrSettled
    \/ \E id \in QueryIds : GetResult(id)

SpecQuery == InitQuery /\ [][NextQuery]_vars

\* The manager with browsers that fail to close.  The cache starts empty or
\* two entries below its bound, the operator answers every modal with one of
\* its buttons and the portal shows its login page at most MaxCloseWalls
\* times.
NextClose ==
    \/ \E c \in Calls, req \in Requests : StartAutomation(c, req)
    \/ \E i \in Sessions : Created(i)
    \/ \E i \in Sessions : LaunchFail(i)
    \/ \E i \in Sessions : GotoOk(i)
    \/ \E i \in Sessions : PortalFail(i)
    \/ \E i \in Sessions : ScriptOk(i)
    \/ \E i \in Sessions : PrepOk(i)
    \/ \E i \in Sessions : CloseFail(i)
    \/ \E i \in Sessions : FinalCloseDone(i)
    \/ \E i \in Sessions : RunCleanupDone(i)
    \/ \E i \in Sessions : walls < MaxCloseWalls /\ GotoLoginWall(i)
    \/ \E i \in Sessions : HlrCleanupDone(i)
    \/ \E k \in Cycles : RespondLogin(k)
    \/ \E k \in Cycles : RespondCancel(k)
    \/ \E k \in Cycles : PopupClosed(k)
    \/ \E k \in Cycles : AuthLaunched(k)
    \/ \E k \in Cycles : AuthFail(k)
    \/ \E k \in Cycles : LoginDetected(k)
    \/ RunReturned
    \/ RetrySettled
    \/ HlrSettled

SpecClose == Init /\ [][NextClose]_vars

\* The manager with the checks of the session timers.  The cache starts
\* empty, the operator answers every modal with one of its buttons and the
\* portal shows its login page at most MaxTimerWalls times.
InitTimer == Init /\ oldResults = 0

NextTimer ==
    \/ \E c \in Calls, req \in Requests : StartAutomation(c, req)
    \/ \E i \in Sessions : Created(i)
    \/ \E i \in Sessions : LaunchFail(i)
    \/ \E i \in Sessions : GotoOk(i)
    \/ \E i \in Sessions : PortalFail(i)
    \/ \E i \in Sessions : ScriptOk(i)
    \/ \E i \in Sessions : PrepOk(i)
    \/ \E i \in Sessions : FinalCloseDone(i)
    \/ \E i \in Sessions : RunCleanupDone(i)
    \/ \E i \in Sessions : walls < MaxTimerWalls /\ GotoLoginWall(i)
    \/ \E i \in Sessions : HlrCleanupDone(i)
    \/ \E i \in Sessions : HlrWaitDone(i)
    \/ \E i \in Sessions : HlrWaitTimeout(i)
    \/ \E i \in Sessions : PollTimeout(i)
    \/ \E i \in Sessions : TimerPaused(i)
    \/ \E i \in Sessions : TimerExpire(i)
    \/ \E i \in Sessions : TimerCleanupDone(i)
    \/ \E k \in Cycles : RespondLogin(k)
    \/ \E k \in Cycles : RespondCancel(k)
    \/ \E k \in Cycles : PopupClosed(k)
    \/ \E k \in Cycles : AuthLaunched(k)
    \/ \E k \in Cycles : AuthFail(k)
    \/ \E k \in Cycles : LoginDetected(k)
    \/ RunReturned
    \/ RetrySettled
    \/ HlrSettled

SpecTimer == InitTimer /\ [][NextTimer]_vars

\* ------------------------------------------------------------ startSetup
SetupCaller == [kind |-> "setup", call |-> 0, cycle |-> 0, originalId |-> 0]

\* the sessions of startSetup calls
Setups == { i \in Sessions : auto[i].caller.kind = "setup" }

\* the positions of startSetup at which its browser exists and has not been
\* closed: from the return of firefox.launch to the end of cleanupAutomation,
\* and for good when startSetup has ended without closing it
SetupBrowserPcs ==
    {"setup_context", "setup_goto", "setup_login", "setup_save", "setup_shown",
     "setup_cleanup", "setup_fail_cleanup", "setup_leaked"}

\* the positions inside the inner try of startSetup, where the session is
\* registered and a throw reaches the inner catch
SetupTryPcs == {"setup_goto", "setup_login", "setup_save"}

\* startSetup(), up to await fs.access(firefoxPath).  The session object is
\* created with status running once the page exists; it is kept here from
\* the start, outside the map.
StartSetup ==
    /\ Idle
    /\ Cardinality(Setups) < MaxSetups
    /\ auto' = Append(auto, [NewAutomation(NoRequest, SetupCaller) EXCEPT
                                 !.pc = "setup_access"])
    /\ UNCHANGED << isReauthenticating, runningAutomations, pendingAutomations,
                    completedResults, oldResults, authBrowser, authOpen, cycles,
                    calls, walls, lastResult, microtasks >>
    /\ UNCHANGED activeCount
    /\ UNCHANGED << config, complete >>
    /\ UNCHANGED printVars

\* the executable exists: firefox.launch is awaited
SetupAccessOk(i) ==
    /\ Idle
    /\ i \in 1..Len(auto)
    /\ auto[i].pc = "setup_access"
    /\ auto' = [auto EXCEPT ![i].pc = "setup_launch"]
    /\ UNCHANGED << isReauthenticating, runningAutomations, pendingAutomations,
                    completedResults, oldResults, authBrowser, authOpen, cycles,
                    calls, walls, lastResult, microtasks >>
    /\ UNCHANGED activeCount
    /\ UNCHANGED << config, complete >>
    /\ UNCHANGED printVars

\* firefox.launch returned the browser: browser.newContext and then
\* context.newPage are awaited
SetupLaunched(i) ==
    /\ Idle
    /\ i \in 1..Len(auto)
    /\ auto[i].pc = "setup_launch"
    /\ auto' = [auto EXCEPT ![i].pc = "setup_context"]
    /\ UNCHANGED << isReauthenticating, runningAutomations, pendingAutomations,
                    completedResults, oldResults, authBrowser, authOpen, cycles,
                    calls, walls, lastResult, microtasks >>
    /\ UNCHANGED activeCount
    /\ UNCHANGED << config, complete >>
    /\ UNCHANGED printVars

\* the context and the page exist: the session is put in the map and
\* page.goto is awaited
SetupPageOk(i) ==
    /\ Idle
    /\ i \in 1..Len(auto)
    /\ auto[i].pc = "setup_context"
    /\ runningAutomations' = Append(runningAutomations, i)
    /\ auto' = [auto EXCEPT ![i].pc = "setup_goto"]
    /\ UNCHANGED << isReauthenticating, pendingAutomations, completedResults,
                    oldResults, authBrowser, authOpen, cycles, calls, walls,
                    lastResult, microtasks >>
    /\ UNCHANGED activeCount
    /\ UNCHANGED << config, complete >>
    /\ UNCHANGED printVars

\* the portal page loaded: page.waitForURL (five minutes) is awaited
SetupGotoOk(i) ==
    /\ Idle
    /\ i \in 1..Len(auto)
    /\ BrowserOpen(i)
    /\ auto[i].pc = "setup_goto"
    /\ auto' = [auto EXCEPT ![i].pc = "setup_login"]
    /\ UNCHANGED << isReauthenticating, runningAutomations, pendingAutomations,
                    completedResults, oldResults, authBrowser, authOpen, cycles,
                    calls, walls, lastResult, microtasks >>
    /\ UNCHANGED activeCount
    /\ UNCHANGED << config, complete >>
    /\ UNCHANGED printVars

\* the operator logged in: context.storageState and saveConfig are awaited
SetupLoginOk(i) ==
    /\ Idle
    /\ i \in 1..Len(auto)
    /\ BrowserOpen(i)
    /\ auto[i].pc = "setup_login"
    /\ auto' = [auto EXCEPT ![i].pc = "setup_save"]
    /\ UNCHANGED << isReauthenticating, runningAutomations, pendingAutomations,
                    completedResults, oldResults, authBrowser, authOpen, cycles,
                    calls, walls, lastResult, microtasks >>
    /\ UNCHANGED activeCount
    /\ UNCHANGED << config, complete >>
    /\ UNCHANGED printVars

\* the state and the configuration are saved: the status becomes completed
\* and the two seconds of the success message are awaited
SetupSaved(i) ==
    /\ Idle
    /\ i \in 1..Len(auto)
    /\ BrowserOpen(i)
    /\ auto[i].pc = "setup_save"
    /\ auto' = [auto EXCEPT ![i].pc = "setup_shown", ![i].status = "completed"]
    /\ UNCHANGED << isReauthenticating, runningAutomations, pendingAutomations,
                    completedResults, oldResults, authBrowser, authOpen, cycles,
                    calls, walls, lastResult, microtasks >>
    /\ UNCHANGED activeCount
    /\ config' = TRUE
    /\ UNCHANGED complete
    /\ UNCHANGED printVars

\* the two seconds have passed: cleanupAutomation(id) runs up to
\* browser.close()
SetupShown(i) ==
    /\ Idle
    /\ i \in 1..Len(auto)
    /\ auto[i].pc = "setup_shown"
    /\ auto' = [auto EXCEPT ![i].pc = "setup_cleanup",
                             ![i].closes = IF Live(i) THEN 1 ELSE auto[i].closes]
    /\ completedResults' =
          CleanupStore(runningAutomations, completedResults, i, auto[i].result)
    /\ UNCHANGED << isReauthenticating, runningAutomations, pendingAutomations,
                    oldResults, authBrowser, authOpen, cycles, calls, walls,
                    lastResult, microtasks >>
    /\ UNCHANGED activeCount
    /\ UNCHANGED << config, complete >>
    /\ UNCHANGED printVars

\* fs.access or firefox.launch throws: no session object exists, the outer
\* catch rethrows 'Setup failed: ...'
SetupNoBrowser(i) ==
    /\ Idle
    /\ i \in 1..Len(auto)
    /\ auto[i].pc \in {"setup_access", "setup_launch"}
    /\ auto' = [auto EXCEPT ![i].pc = "setup_rejected", ![i].ret = ErrorResult(ErrSetup)]
    /\ UNCHANGED << isReauthenticating, runningAutomations, pendingAutomations,
                    completedResults, oldResults, authBrowser, authOpen, cycles,
                    calls, walls, lastResult, microtasks >>
    /\ UNCHANGED activeCount
    /\ UNCHANGED << config, complete >>
    /\ UNCHANGED printVars

\* browser.newContext or context.newPage throws: the throw is outside the
\* inner try, the outer catch rethrows 'Setup failed: ...' and nothing
\* closes the browser that firefox.launch returned
SetupContextFail(i) ==
    /\ Idle
    /\ i \in 1..Len(auto)
    /\ auto[i].pc = "setup_context"
    /\ auto' = [auto EXCEPT ![i].pc = "setup_leaked", ![i].ret = ErrorResult(ErrSetup)]
    /\ UNCHANGED << isReauthenticating, runningAutomations, pendingAutomations,
                    completedResults, oldResults, authBrowser, authOpen, cycles,
                    calls, walls, lastResult, microtasks >>
    /\ UNCHANGED activeCount
    /\ UNCHANGED << config, complete >>
    /\ UNCHANGED printVars

\* page.goto, page.waitForURL, storageState or saveConfig throws: the inner
\* catch sets the status to error when the map holds the id and awaits
\* cleanupAutomation(id)
SetupFail(i) ==
    /\ Idle
    /\ i \in 1..Len(auto)
    /\ auto[i].pc \in SetupTryPcs
    /\ auto' = [auto EXCEPT ![i].pc = "setup_fail_cleanup",
                             ![i].status = IF Live(i) THEN "error" ELSE @,
                             ![i].closes = IF Live(i) THEN 1 ELSE @]
    /\ completedResults' =
          CleanupStore(runningAutomations, completedResults, i, auto[i].result)
    /\ UNCHANGED << isReauthenticating, runningAutomations, pendingAutomations,
                    oldResults, authBrowser, authOpen, cycles, calls, walls,
                    lastResult, microtasks >>
    /\ UNCHANGED activeCount
    /\ UNCHANGED << config, complete >>
    /\ UNCHANGED printVars

\* the cleanupAutomation of startSetup has ended: the session leaves the
\* map; startSetup returns the id, or rethrows after a failure
SetupCleanupDone(i) ==
    /\ Idle
    /\ i \in 1..Len(auto)
    /\ auto[i].pc \in {"setup_cleanup", "setup_fail_cleanup"}
    /\ runningAutomations' = SeqRemove(runningAutomations, i)
    /\ auto' = [auto EXCEPT
          ![i].pc = IF auto[i].pc = "setup_cleanup" THEN "setup_done" ELSE "setup_rejected",
          ![i].ret = IF auto[i].pc = "setup_cleanup" THEN @ ELSE ErrorResult(ErrSetup)]
    /\ UNCHANGED << isReauthenticating, pendingAutomations, completedResults,
                    oldResults, authBrowser, authOpen, cycles, calls, walls,
                    lastResult, microtasks >>
    /\ activeCount' = IF Live(i) THEN Len(runningAutomations') ELSE activeCount
    /\ UNCHANGED << config, complete >>
    /\ UNCHANGED printVars

\* the requests that carry every required parameter
CompleteRequests == { req \in Requests : ~MissingParams(req) }

\* The manager with a setup run next to the listing sessions.  The cache
\* starts empty, every request is complete, the operator answers every modal
\* with one of its buttons and the portal shows its login page at most
\* MaxSetupWalls times.
NextSetup ==
    \/ StartSetup
    \/ \E i \in Sessions : SetupAccessOk(i)
    \/ \E i \in Sessions : SetupLaunched(i)
    \/ \E i \in Sessions : SetupPageOk(i)
    \/ \E i \in Sessions : SetupGotoOk(i)
    \/ \E i \in Sessions : SetupLoginOk(i)
    \/ \E i \in Sessions : SetupSaved(i)
    \/ \E i \in Sessions : SetupShown(i)
    \/ \E i \in Sessions : SetupNoBrowser(i)
    \/ \E i \in Sessions : SetupContextFail(i)
    \/ \E i \in Sessions : SetupFail(i)
    \/ \E i \in Sessions : SetupCleanupDone(i)
    \/ \E c \in Calls, req \in CompleteRequests : StartAutomation(c, req)
    \/ \E i \in Sessions : Created(i)
    \/ \E i \in Sessions : LaunchFail(i)
    \/ \E i \in Sessions : GotoOk(i)
    \/ \E i \in Sessions : PortalFail(i)
    \/ \E i \in Sessions : ScriptOk(i)
    \/ \E i \in Sessions : PrepOk(i)
    \/ \E i \in Sessions : FinalCloseDone(i)
    \/ \E i \in Sessions : RunCleanupDone(i)
    \/ \E i \in Sessions : walls < MaxSetupWalls /\ GotoLoginWall(i)
    \/ \E i \in Sessions : HlrCleanupDone(i)
    \/ \E k \in Cycles : RespondLogin(k)
    \/ \E k \in Cycles : RespondCancel(k)
    \/ \E k \in Cycles : PopupClosed(k)
    \/ \E k \in Cycles : AuthLaunched(k)
    \/ \E k \in Cycles : AuthFail(k)
    \/ \E k \in Cycles : LoginDetected(k)
    \/ RunReturned
    \/ RetrySettled
    \/ HlrSettled

SpecSetup == InitQuery /\ [][NextSetup]_vars

\* ------------------------------------------------------------- progress
\* The steps that the manager takes without a new request and without the
\* operator: a browser, window or file operation returns or fails, a timer
\* runs out, a continuation runs.
Progress ==
    \/ \E i \in Sessions : Created(i)
    \/ \E i \in Sessions : LaunchFail(i)
    \/ \E i \in Sessions : GotoOk(i)
    \/ \E i \in Sessions : PortalFail(i)
    \/ \E i \in Sessions : ScriptOk(i)
    \/ \E i \in Sessions : PrepOk(i)
    \/ \E i \in Sessions : FinalCloseDone(i)
    \/ \E i \in Sessions : RunCleanupDone(i)
    \/ \E i \in Sessions : walls < MaxLiveWalls /\ GotoLoginWall(i)
    \/ \E i \in Sessions : HlrCleanupDone(i)
    \/ \E i \in Sessions : HlrWaitDone(i)
    \/ \E i \in Sessions : HlrWaitTimeout(i)
    \/ \E i \in Sessions : PollTick(i)
    \/ \E i \in Sessions : PollTimeout(i)
    \/ \E k \in Cycles : PopupClosed(k)
    \/ \E k \in Cycles : AuthLaunched(k)
    \/ \E k \in Cycles : AuthFail(k)
    \/ \E k \in Cycles : LoginDetected(k)
    \/ RunReturned
    \/ RetrySettled
    \/ HlrSettled

\* The manager with listing sessions and an operator who answers a modal
\* with one of its buttons, closes its window or leaves it unanswered.  The
\* cache starts empty, every request is complete, the portal shows its login
\* page at most MaxLiveWalls times, and a step of Progress that stays
\* possible is taken: every operation returns or fails and every wait
\* reaches its timeout.
NextLive ==
    \/ \E c \in Calls, req \in CompleteRequests : StartAutomation(c, req)
    \/ \E k \in Cycles : RespondLogin(k)
    \/ \E k \in Cycles : RespondCancel(k)
    \/ \E k \in Cycles : OperatorClose(k)
    \/ Progress

SpecLive == InitQuery /\ [][NextLive]_vars /\ WF_vars(Progress)

\* the operator answers a modal with one of its buttons or closes its window
Operator ==
    \/ \E k \in Cycles : RespondLogin(k)
    \/ \E k \in Cycles : RespondCancel(k)
    \/ \E k \in Cycles : OperatorClose(k)

\* the same behaviours with an operator who does not leave a modal unanswered
SpecAnswered ==
    InitQuery /\ [][NextLive]_vars /\ WF_vars(Progress) /\ WF_vars(Operator)

\* ================================================================ claims
OpenModals == { k \in Cycles : cycles[k].popup = "open" }

\* the session created for call c, 0 when the call created none
SessionOfCall(c) ==
    IF \E i \in Sessions : auto[i].caller.kind = "call" /\ auto[i].caller.call = c
    THEN CHOOSE i \in Sessions : auto[i].caller.kind = "call" /\ auto[i].caller.call = c
    ELSE 0

\* cycle k is in flight: its modal is on screen or its login browser is open
InFlight(k) == cycles[k].popup = "open" \/ k \in authOpen

\* C1: at most one re-authentication cycle is in flight at a time: no two
\* cycles have a modal on screen or a login browser open at the same time.
C1_OneCycleInFlight ==
    Cardinality({ k \in Cycles : InFlight(k) }) <= 1

\* The flag test of handleLoginRequired taken alone: a call starts a cycle
\* only when it finds the flag clear, and then sets the flag; a call that
\* finds the flag set starts no cycle, creates no modal and no login browser,
\* and leaves its wait only once the flag is clear or with the wait's own
\* timeout error.
HlrFlagTest ==
    [][ /\ Len(cycles') # Len(cycles) =>
              /\ ~isReauthenticating
              /\ isReauthenticating'
              /\ Len(cycles') = Len(cycles) + 1
        /\ \A i \in Sessions :
              /\ (auto[i].pc = "goto" /\ auto'[i].pc \in {"hlr_wait", "hlr_cleanup"}) =>
                    IF isReauthenticating
                    THEN /\ auto'[i].pc = "hlr_wait"
                         /\ cycles' = cycles
                         /\ authOpen' = authOpen
                    ELSE /\ auto'[i].pc = "hlr_cleanup"
                         /\ Len(cycles') = Len(cycles) + 1
                         /\ cycles'[Len(cycles')].trigger = i
              /\ (auto[i].pc = "hlr_wait" /\ auto'[i].pc # "hlr_wait") =>
                    /\ cycles' = cycles
                    /\ authOpen' = authOpen
                    /\ ~isReauthenticating \/ auto'[i].ret = ErrorResult(ErrWait)
      ]_vars

\* C2: at most one re-authentication modal and at most one login browser
\* exist at any time.
C2_OneModalOneBrowser ==
    /\ Cardinality(OpenModals) <= 1
    /\ Cardinality(authOpen) <= 1

\* C3: a call whose request lacks the product id, the sku or the price never
\* resolves, and no session created for it ever enters the map of live
\* sessions (which a session enters once its browser has been launched).
C3_MissingParamsFailFast ==
    \A c \in Calls :
        (calls[c].state # "idle" /\ MissingParams(calls[c].request)) =>
            /\ calls[c].state # "resolved"
            /\ SessionOfCall(c) # 0 => ~Live(SessionOfCall(c))

\* the sessions retryPendingAutomations created for the pending entry that
\* carries originalId i
RetriesOf(i) ==
    { r \in Sessions : auto[r].caller.kind = "retry" /\ auto[r].caller.originalId = i }

\* startReauthentication of cycle k saw the login succeed and went on to
\* retryPendingAutomations
LoginSucceeded(k) == cycles[k].rpc \in {"retrying", "done"}

\* runAutomation of session i has returned to its caller
Returned(i) == auto[i].pc \in {"done", "failed"}

\* C4: when the cycle a session triggered succeeds, the session's
\* startAutomation call does not resolve before every retry of its request
\* has returned its terminal result.
C4_ResolveAfterRetry ==
    \A k \in Cycles :
        LET i == cycles[k].trigger
        IN  (/\ LoginSucceeded(k)
             /\ auto[i].caller.kind = "call"
             /\ calls[auto[i].caller.call].state # "active") =>
                \A r \in RetriesOf(i) : Returned(r)

\* C5: after a successful cycle, once the triggering session and the retry
\* of its request have returned, getAutomationResult(original id) is the
\* retried session's terminal result.
C5_ResultCorrelation ==
    \A k \in Cycles :
        LET i == cycles[k].trigger
        IN  (LoginSucceeded(k) /\ Returned(i)) =>
                \A r \in RetriesOf(i) :
                    Returned(r) => GetAutomationResult(i) = auto[r].ret

\* C6: the retry step of a cycle starts a session for the request captured
\* from the cycle's triggering session and for no other request.
C6_OnlyTriggerRetried ==
    \A r \in Sessions :
        auto[r].caller.kind = "retry" =>
            auto[r].caller.originalId = cycles[auto[r].caller.cycle].trigger

\* C7: when a cycle resolves successfully, every session in the map whose
\* status is paused is set to running, and no session in the map is left
\* paused.
C7_PausedResumed ==
    [][ \A k \in Cycles :
          (cycles[k].promise = "pending" /\ cycles'[k].promise = "resolved") =>
              \A i \in SeqToSet(runningAutomations') :
                  /\ auto[i].status = "paused" => auto'[i].status = "running"
                  /\ auto'[i].status # "paused"
      ]_vars

\* C7 witness: a cycle has resolved successfully and a session it had paused
\* is in the map with status running
C7_Witness ==
    \E k \in Cycles : \E i \in cycles[k].visited :
        /\ cycles[k].promise = "resolved"
        /\ Live(i)
        /\ auto[i].status = "running"

\* C8: when the operator cancels the modal of a cycle, the startAutomation
\* call of the triggering session does not resolve with a session id.
C8_CancelRejectsCaller ==
    \A k \in Cycles :
        LET i == cycles[k].trigger
        IN  (cycles[k].cancelled /\ auto[i].caller.kind = "call") =>
                calls[auto[i].caller.call].state # "resolved"

\* the operator dismisses the modal of cycle k before choosing login: the
\* window goes from open to closing (cancel) or closed (window closed)
\* while browserLaunched is still unset
Dismissed(k) ==
    /\ cycles[k].popup = "open"
    /\ cycles'[k].popup \in {"closing", "closed"}
    /\ ~cycles'[k].browserLaunched

\* C9: right after the operator dismisses the modal the pending queue is
\* empty and the flag is clear.
C9_CancelClearsQueue ==
    [][ \A k \in Cycles :
          Dismissed(k) => (pendingAutomations' = <<>> /\ ~isReauthenticating')
      ]_vars

\* C10: once a cycle has been cancelled, no getAutomationResult call for the
\* triggering session's id returns a result that carries an identifier (a
\* call is served between events, when no continuation is waiting).
C10_NoSuccessAfterCancel ==
    \A k \in Cycles :
        (cycles[k].cancelled /\ Idle) =>
            GetAutomationResult(cycles[k].trigger).kind # "fnsku"

\* C11: in every state where the modal of a cycle shows its loading view,
\* the cycle's login browser is open and waits for the login URL and the
\* cycle's promise is pending, a cancel response from that modal empties the
\* pending queue and rejects the cycle's promise with the cancellation error.
C11_CancelAfterLogin ==
    \A k \in Cycles :
        (/\ Idle
         /\ cycles[k].popup = "open"
         /\ cycles[k].view = "loading"
         /\ cycles[k].rpc = "waitURL"
         /\ cycles[k].promise = "pending") =>
            ENABLED (/\ RespondCancel(k)
                     /\ pendingAutomations' = <<>>
                     /\ cycles'[k].promise = "rejected"
                     /\ cycles'[k].error = ErrCancelled)

\* C12: at the step in which a cycle is cancelled, every startAutomation call
\* whose request is in the pending queue is rejected with the cancellation
\* error.
C12_QueuedCallersCancelled ==
    [][ \A k \in Cycles :
          (~cycles[k].cancelled /\ cycles'[k].cancelled) =>
              \A n \in 1..Len(pendingAutomations) :
                  LET c == pendingAutomations[n].from
                  IN  c # 0 => /\ calls'[c].state = "rejected"
                               /\ calls'[c].error = ErrCancelled
      ]_vars

\* the request of session i is in the pending queue
Queued(i) == \E n \in 1..Len(pendingAutomations) : pendingAutomations[n].originalId = i

\* C13: when every cycle so far has seen its login succeed, a session for
\* which handleLoginRequired has returned (it started the cycle or waited for
\* the active one) and which now waits for the retried result has been
\* abandoned, and its request is in the pending queue or has been retried.
C13_LoginWalledRetried ==
    \A i \in Sessions :
        (auto[i].pc = "poll" /\ \A k \in Cycles : LoginSucceeded(k)) =>
            /\ ~Live(i)
            /\ Queued(i) \/ RetriesOf(i) # {}

\* C14: a session whose status is completed or error keeps that status in
\* every later step.
C14_TerminalStatusKept ==
    [][ \A i \in Sessions :
          auto[i].status \in {"completed", "error"} => auto'[i].status = auto[i].status
      ]_vars

\* C15: a session in the map has status paused only while the flag is set.
C15_PausedOnlyDuringReauth ==
    \A i \in Sessions :
        (Idle /\ Live(i) /\ auto[i].status = "paused") => isReauthenticating

\* C16: the timer of a session started by startAutomation runs whenever the
\* flag is clear: while such a session is in the map and no cycle is active,
\* a check of its timer is scheduled (or has fired and is cleaning up), so
\* that the session is forced to error once its time is used up.
C16_TimerRunsAfterReauth ==
    \A i \in Sessions :
        (/\ Idle
         /\ Live(i)
         /\ auto[i].caller.kind = "call"
         /\ ~isReauthenticating) =>
            auto[i].timer \in {"armed", "fired"}

\* v is the leftmost substring of ten characters, X0 followed by eight of
\* [A-Z0-9], of a text some session read from the page
ExtractedFromPage(v) ==
    \E j \in Sessions : \E text \in PageTexts(j) : \E a \in 1..Len(text) :
        /\ MatchesAt(text, a)
        /\ \A b \in 1..(a - 1) : ~MatchesAt(text, b)
        /\ v = CharsToString(SubSeq(text, a, a + 9))

C18_LookupPure ==
    [][ lastResult' # lastResult =>
          LET id == lastResult'.id
          IN  /\ lastResult'.res =
                    IF Live(id) /\ auto[id].result.kind # "none"
                    THEN auto[id].result
                    ELSE IF ResultsHas(completedResults, id)
                         THEN ResultsGet(completedResults, id)
                         ELSE NoResult
              /\ id \notin Sessions => lastResult'.res = NoResult
              /\ UNCHANGED << runningAutomations, completedResults,
                              pendingAutomations, isReauthenticating >> ]_vars

\* a lookup returned the result of a live session that the cache does not hold
C18_Witness ==
    /\ lastResult.id \in Sessions
    /\ Live(lastResult.id)
    /\ lastResult.res.kind # "none"
    /\ lastResult.res = auto[lastResult.id].result
    /\ ~ResultsHas(completedResults, lastResult.id)

\* C19: after every operation of the manager (a session completing, a
\* cleanup, a retried result stored under the original id) the cache of
\* completed results holds at most MAX_COMPLETED_RESULTS entries.
C19_CacheCapped == Idle => ResultsSize <= MAX_COMPLETED_RESULTS

\* C20: when the cleanupAutomation that a session's run awaits returns, the
\* session is not in the map, after any number of failed close attempts; a
\* cleanup makes at most three calls of browser.close(); and a
\* cleanupAutomation for a session that has left the map changes nothing:
\* it stores nothing and calls no browser.close().
C20_CleanupRemoves ==
    [][ \A i \in Sessions :
          /\ (auto[i].pc \in CleanupPcs /\ auto'[i].pc \notin CleanupPcs) =>
                i \notin SeqToSet(runningAutomations')
          /\ auto'[i].closes <= 3
          /\ (~Live(i) /\ auto[i].pc # "launch") =>
                /\ CleanupStore(runningAutomations, completedResults, i,
                                auto[i].result) = completedResults
                /\ auto'[i].closes = auto[i].closes ]_vars

\* a cleanup has returned after three close attempts
C20_Witness ==
    \E i \in Sessions :
        /\ auto[i].closes = 3
        /\ auto[i].pc \notin CleanupPcs
        /\ ~Live(i)

\* C22: once startSetup has failed (it has thrown to its caller), the status
\* of its session is error, the session is not in the map and its browser is
\* not open.
C22_SetupFailureCleans ==
    \A i \in Setups :
        auto[i].ret.kind = "error" =>
            /\ auto[i].status = "error"
            /\ ~Live(i)
            /\ auto[i].pc \notin SetupBrowserPcs

\* The part of C22 that the inner catch of startSetup covers: a failure of
\* the navigation, of the login wait or of the saving, for a session that no
\* cycle has touched, ends with status error, outside the map, browser closed.
SetupInnerCatch ==
    \A i \in Setups :
        (auto[i].pc = "setup_rejected" /\ auto[i].closes > 0 /\ cycles = <<>>) =>
            /\ auto[i].status = "error"
            /\ ~Live(i)

\* the largest number of sessions a behaviour with fair progress creates:
\* one for each call and one for each retry
MaxLiveSessions == MaxCalls + MaxLiveWalls

PauseCalls == 1..MaxPauseCalls

InitPause ==
    /\ isReauthenticating = FALSE
    /\ runningAutomations = <<>>
    /\ pendingAutomations = <<>>
    /\ completedResults = <<>>
    /\ oldResults = 0
    /\ authBrowser = 0
    /\ authOpen = {}
    /\ auto = <<>>
    /\ cycles = <<>>
    /\ calls = [c \in PauseCalls |-> [state |-> "idle", value |-> 0,
                                      request |-> NoRequest, error |-> ""]]
    /\ walls = 0
    /\ lastResult = [id |-> 0, res |-> NoResult]
    /\ microtasks = <<>>
    /\ activeCount = 0
    /\ config = FALSE
    /\ complete = NoComplete
    /\ StartupOver

NextPause ==
    \/ \E c \in PauseCalls, req \in CompleteRequests : StartAutomation(c, req)
    \/ \E i \in Sessions : Created(i)
    \/ \E i \in Sessions : LaunchFail(i)
    \/ \E i \in Sessions : GotoOk(i)
    \/ \E i \in Sessions : PortalFail(i)
    \/ \E i \in Sessions : ScriptOk(i)
    \/ \E i \in Sessions : PrepOk(i)
    \/ \E i \in Sessions : FinalCloseDone(i)
    \/ \E i \in Sessions : RunCleanupDone(i)
    \/ \E i \in Sessions : walls < MaxPauseWalls /\ GotoLoginWall(i)
    \/ \E i \in Sessions : HlrCleanupDone(i)
    \/ \E i \in Sessions : HlrWaitDone(i)
    \/ \E i \in Sessions : HlrWaitTimeout(i)
    \/ \E i \in Sessions : PollTimeout(i)
    \/ \E k \in Cycles : RespondCancel(k)
    \/ \E k \in Cycles : PopupClosed(k)
    \/ RunReturned
    \/ HlrSettled

SpecPause == InitPause /\ [][NextPause]_vars

\* ------------------------------------------- POST /automation/start
\* const maxAttempts = 10 in getResultWithRetry
maxAttempts == 10

ErrNoFnsku  == "Failed to get FNSKU from automation"
ErrAttempts == "Timed out waiting for automation result after 10 attempts"

\* an endpoint that answers with success whenever a result is found
HttpAnswer_Found(r) == "success"

\* what the endpoint answers for the result r that getResultWithRetry
\* returned: `if (!finalResult.fnsku) throw`, else res.json({success: true})
HttpAnswer(r) == IF r.kind = "fnsku" THEN "success" ELSE "failure"

\* The handler state of one request to the endpoint: the state of its
\* startAutomation call, the attempts of getResultWithRetry and the
\* identifier of the success response.
InitHttp ==
    /\ isReauthenticating = FALSE
    /\ runningAutomations = <<>>
    /\ pendingAutomations = <<>>
    /\ completedResults = <<>>
    /\ oldResults = 0
    /\ authBrowser = 0
    /\ authOpen = {}
    /\ auto = <<>>
    /\ cycles = <<>>
    /\ calls = [c \in Calls |-> [state |-> "idle", value |-> 0,
                                 request |-> NoRequest, error |-> "",
                                 attempts |-> 0, fnsku |-> ""]]
    /\ walls = 0
    /\ lastResult = [id |-> 0, res |-> NoResult]
    /\ microtasks = <<>>
    /\ activeCount = 0
    /\ config = FALSE
    /\ complete = NoComplete
    /\ StartupOver

\* one pass of the loop of getResultWithRetry for the request of call c, after
\* startAutomation has returned: a result ends the loop and is answered, a
\* miss is followed by the delay, and the miss of the last attempt by the
\* throw that the catch answers with status 500
HttpPoll(c) ==
    /\ Idle
    /\ calls[c].state = "resolved"
    /\ calls[c].attempts < maxAttempts
    /\ LET id == calls[c].value
           r  == GetAutomationResult(id)
       IN  /\ lastResult' = [id |-> id, res |-> r]
           /\ calls' =
                 IF r.kind # "none"
                 THEN [calls EXCEPT ![c].state = HttpAnswer(r),
                                    ![c].fnsku = IF r.kind = "fnsku" THEN r.val ELSE "",
                                    ![c].error = IF r.kind = "fnsku" THEN "" ELSE ErrNoFnsku]
                 ELSE IF calls[c].attempts + 1 = maxAttempts
                 THEN [calls EXCEPT ![c].state = "failure",
                                    ![c].attempts = @ + 1,
                                    ![c].error = ErrAttempts]
                 ELSE [calls EXCEPT ![c].attempts = @ + 1]
    /\ UNCHANGED << isReauthenticating, runningAutomations, pendingAutomations,
                    completedResults, oldResults, authBrowser, authOpen, auto,
                    cycles, walls, microtasks >>
    /\ UNCHANGED activeCount
    /\ UNCHANGED << config, complete >>
    /\ UNCHANGED printVars

\* startAutomation has thrown: the catch of the handler answers with status
\* 500 and the message of the error
HttpCatch(c) ==
    /\ Idle
    /\ calls[c].state = "rejected"
    /\ calls' = [calls EXCEPT ![c].state = "failure"]
    /\ UNCHANGED << isReauthenticating, runningAutomations, pendingAutomations,
                    completedResults, oldResults, authBrowser, authOpen, auto,
                    cycles, walls, lastResult, microtasks >>
    /\ UNCHANGED activeCount
    /\ UNCHANGED << config, complete >>
    /\ UNCHANGED printVars

\* The manager behind the endpoint: every startAutomation call is made by
\* the handler of a request.
NextHttp ==
    \/ NextLive
    \/ \E c \in Calls : HttpPoll(c)
    \/ \E c \in Calls : HttpCatch(c)

SpecHttp == InitHttp /\ [][NextHttp]_vars

\* ------------------------------------------------------------ C23
\* the end of the pause loop of the cycle that session i started
LoopEnds(i) ==
    /\ i \in 1..Len(auto)
    /\ auto[i].pc = "hlr_cleanup"
    /\ auto'[i].pc = "hlr_modal"

\* the pause loop of session i ends with i outside the map and with every
\* session of the map reached by the loop, the ones reached in this step
\* paused
LoopPausesOthers ==
    \A i \in 1..Len(auto) :
        LoopEnds(i) =>
            /\ i \notin SeqToSet(runningAutomations')
            /\ \A j \in SeqToSet(runningAutomations') :
                  /\ j \in cycles'[CycleOf(i)].visited
                  /\ j \notin cycles[CycleOf(i)].visited => auto'[j].status = "paused"

\* no step marks paused a session that has started a cycle
TriggerNotPaused ==
    \A i \in 1..Len(auto) :
        (CycleOf(i) # 0 /\ auto[i].status # "paused") => auto'[i].status # "paused"

\* C23: when the pause loop of a cycle ends, the triggering session is out of
\* the map and every session in the map has been marked paused by the loop;
\* and no step marks a session that has triggered a cycle as paused.
C23_PauseAtCycleStart == [][LoopPausesOthers /\ TriggerNotPaused]_vars

\* the first half of C23 alone
C23_OthersPaused == [][LoopPausesOthers]_vars

\* ------------------------------------------------------------ C24
\* a step of the run of session i that ends with a failure of the portal, or
\* the end of the cleanup that follows that failure
FailureStep(i) ==
    /\ i \in 1..Len(auto)
    /\ auto'[i].ret = ErrorResult(ErrPortal)
    /\ auto'[i].pc # auto[i].pc
    /\ \/ auto[i].pc \in {"goto", "script", "prep"}
       \/ auto[i].pc = "run_cleanup"

\* a startAutomation call that has not been made yet can be made
CallsServed ==
    \A c \in Calls :
        (Idle /\ calls[c].state = "idle") =>
            \A req \in CompleteRequests : ENABLED StartAutomation(c, req)

\* C24: a step in which the run of one session fails at the portal, or ends
\* the cleanup after that failure, leaves the status and the result of every
\* other session, the flag and the pending queue as they were; and once a
\* session has failed that way a startAutomation call can still be made.
C24_FailureIsLocal ==
    [][ /\ \A i \in 1..Len(auto) :
              FailureStep(i) =>
                  /\ \A j \in SeqToSet(runningAutomations) \ {i} :
                        /\ auto'[j].status = auto[j].status
                        /\ auto'[j].result = auto[j].result
                  /\ isReauthenticating' = isReauthenticating
                  /\ pendingAutomations' = pendingAutomations
        /\ (\E i \in 1..Len(auto) : auto[i].ret = ErrorResult(ErrPortal)) => CallsServed
      ]_vars

\* the run of a session has just failed at the portal while the flag is set
\* and another session is in the map, paused
C24_Witness ==
    \E i, j \in Sessions :
        /\ i # j
        /\ auto[i].ret = ErrorResult(ErrPortal)
        /\ auto[i].pc = "run_cleanup"
        /\ Live(j)
        /\ auto[j].status = "paused"
        /\ isReauthenticating

\* ------------------------------------------------------------ C25
Answered(st) == st \in {"success", "failure"}

\* C25: a request is answered only after its startAutomation call has
\* returned or thrown; the answer is success exactly when the call returned
\* and getAutomationResult of the returned id gives a result with an
\* identifier, and then the answer carries that identifier; any other answer
\* is a failure with a message.
C25_EndpointAnswers ==
    [][ \A c \in Calls :
          (Answered(calls'[c].state) /\ ~Answered(calls[c].state)) =>
              /\ calls[c].state \in {"resolved", "rejected"}
              /\ calls'[c].state = "success" <=>
                    /\ calls[c].state = "resolved"
                    /\ GetAutomationResult(calls[c].value).kind = "fnsku"
              /\ calls'[c].state = "success" =>
                    calls'[c].fnsku = GetAutomationResult(calls[c].value).val
              /\ calls'[c].state = "failure" => calls'[c].error # ""
      ]_vars

\* one request has been answered with success, and another, whose call
\* returned 'pending-auth', with the failure of the last attempt
C25_Witness ==
    \E c, d \in Calls :
        /\ calls[c].state = "success"
        /\ calls[c].fnsku # ""
        /\ calls[d].state = "failure"
        /\ calls[d].value = -1
        /\ calls[d].error = ErrAttempts

\* ------------------------------------------------------------ C26
\* the sessions retryPendingAutomations created for the request that call c
\* left in the pending queue
RetriedFor(c) ==
    { r \in Sessions : auto[r].caller.kind = "retry" /\ auto[r].caller.call = c }

\* the entries of the pending queue that call c pushed
QueuedBy(c) ==
    { n \in 1..Len(pendingAutomations) : pendingAutomations[n].from = c }

\* no modal has been dismissed and no login has failed so far
NoCycleGivenUp ==
    \A k \in Cycles : ~cycles[k].cancelled /\ cycles[k].error = ""

\* a call that found the flag set has returned 'pending-auth' and no session
\* was created for the call itself
QueuedCallSentinel ==
    \A c \in Calls :
        calls[c].value = -1 =>
            /\ calls[c].state = "resolved"
            /\ SessionOfCall(c) = 0

\* the request of such a call is in the queue at most once, is retried at
\* most once, and is not in the queue once it has been retried
QueuedCallNotTwice ==
    \A c \in Calls :
        calls[c].value = -1 =>
            Cardinality(QueuedBy(c)) + Cardinality(RetriedFor(c)) <= 1

\* as long as no cycle has been given up, the request of such a call is in
\* the queue or has been retried
QueuedCallNotLost ==
    \A c \in Calls :
        (calls[c].value = -1 /\ NoCycleGivenUp) =>
            (QueuedBy(c) # {} \/ RetriedFor(c) # {})

\* C26: a call made while the flag is set returns 'pending-auth' without
\* creating a session, and its request is neither lost nor run twice: it
\* stays in the queue until it is retried, and it is retried once.
C26_QueuedRetriedOnce ==
    QueuedCallSentinel /\ QueuedCallNotTwice /\ QueuedCallNotLost

\* the parts of C26 about the sentinel and about running twice
C26_SentinelNotTwice == QueuedCallSentinel /\ QueuedCallNotTwice

\* ------------------------------------------------------------ C27
\* C27: the request captured for the triggering session of a cycle, and the
\* request of every session that retries it, has the sku, asin, price,
\* condition and conditionNotes that were passed to startAutomation for the
\* triggering session.
C27_RetryEqualsOriginal ==
    /\ \A k \in Cycles :
          cycles[k].captured.request = auto[cycles[k].trigger].request
    /\ \A r \in Sessions :
          (auto[r].caller.kind = "retry" /\ auto[r].caller.originalId # 0) =>
              auto[r].request = auto[auto[r].caller.originalId].request

\* a session retries the request of the session that triggered the cycle,
\* with its price and its optional parameters
C27_Witness ==
    \E r \in Sessions :
        /\ auto[r].caller.kind = "retry"
        /\ auto[r].caller.originalId # 0
        /\ auto[r].request.price = 9
        /\ auto[r].request.condition = Condition
        /\ auto[r].request.conditionNotes = Notes

\* ------------------------------------------------------------ C28
\* C28: whenever the flag is set it is eventually clear, when every operation
\* returns or fails, every wait reaches its timeout and the operator answers
\* or closes every modal.
C28_FlagEventuallyClear == isReauthenticating ~> ~isReauthenticating

\* the flag is clear after one cycle whose login succeeded and one cycle
\* whose login browser failed
C28_Witness ==
    /\ ~isReauthenticating
    /\ \E k, j \in Cycles :
          /\ LoginSucceeded(k)
          /\ cycles[j].rpc = "failed"

\* ------------------------------------------------------------ C29
\* s is the sequence t cut after some entry
IsPrefix(s, t) == Len(s) <= Len(t) /\ \A n \in 1..Len(s) : s[n] = t[n]

\* cleanupCompletedResults applied to the cache extended by the result of any
\* session keeps the earliest entries: what is left is the cache cut after
\* an entry, and entries are dropped only when the extended cache is at the
\* cap
TruncationKeepsEarliest ==
    \A i \in Sessions :
        LET cr   == ResultsSet(completedResults, i, ErrorResult(ErrPortal))
            kept == CleanupCompletedResults(oldResults, cr)
        IN  /\ IsPrefix(kept, cr)
            /\ oldResults + Len(cr) < MAX_COMPLETED_RESULTS => kept = cr
            /\ oldResults + Len(cr) >= MAX_COMPLETED_RESULTS =>
                  oldResults + Len(kept) = MAX_COMPLETED_RESULTS - 1

\* the run of session i ends its cleanup in this step
CleanedUp(i) ==
    /\ i \in 1..Len(auto)
    /\ auto[i].pc # "returning"
    /\ auto'[i].pc = "returning"

\* when the run of a session has stored its result and its cleanup has
\* ended, the cache returns that result for the id of the session
StoredResultReturned ==
    \A i \in 1..Len(auto) :
        CleanedUp(i) =>
            /\ i \notin SeqToSet(runningAutomations')
            /\ ResultsGet(completedResults', i) = auto'[i].ret

\* C29: cleanupCompletedResults keeps the earliest entries of the cache and
\* drops the later ones; and the result a finishing session has just stored
\* is returned for the id of the session once the session has been cleaned
\* up.
C29_TruncationKeepsNewest ==
    [][TruncationKeepsEarliest /\ StoredResultReturned]_vars

\* the first half of C29 alone
C29_KeepsEarliest == TruncationKeepsEarliest

\* ------------------------------------------------------------ C30
\* C30: whenever the flag is clear the pending queue is empty.
C30_ClearFlagEmptyQueue == ~isReauthenticating => pendingAutomations = <<>>

\* The part of C30 about the ends of a cycle that empty the queue themselves:
\* a step in which retryPendingAutomations starts or a cancel response is
\* handled leaves the queue empty.
C30_SuccessAndCancelEmpty ==
    [][ \A k \in Cycles :
          \/ (~LoginSucceeded(k) /\ LoginSucceeded(k)')
          \/ (~cycles[k].cancelled /\ cycles'[k].cancelled /\ cycles'[k].popup = "closing")
          => pendingAutomations' = <<>> ]_vars

\* ------------------------------------------------------------ C31
\* C31: once a startAutomation call has resolved with a value,
\* getAutomationResult of that value returns a result.
C31_ResolvedHasResult ==
    \A c \in Calls :
        (Idle /\ calls[c].state = "resolved") =>
            GetAutomationResult(calls[c].value).kind # "none"

\* The part of C31 about calls that created a session, in behaviours whose
\* cache starts empty: the value such a call resolved with has a result.
C31_SessionCallHasResult ==
    \A c \in Calls :
        (Idle /\ calls[c].state = "resolved" /\ calls[c].value # -1 /\ oldResults = 0) =>
            GetAutomationResult(calls[c].value).kind # "none"

\* ------------------------------------------------------------ C32
\* C32: when getAutomationResult has returned a result with an identifier for
\* an id, the next call for the same id, whatever happened in between,
\* returns neither an error nor another identifier.
C32_ResultsStable ==
    [][ (/\ lastResult.res.kind = "fnsku"
         /\ lastResult'.id = lastResult.id
         /\ lastResult' # lastResult)
        => /\ lastResult'.res.kind # "error"
           /\ lastResult'.res.kind = "fnsku" => lastResult'.res.val = lastResult.res.val
      ]_vars

\* The part of C32 about the cache: an identifier that the cache holds for
\* an id is not replaced by an error or by another identifier.
C32_CacheStable ==
    [][ \A n \in 1..Len(completedResults) :
          completedResults[n].res.kind = "fnsku" =>
              ResultsGet(completedResults', completedResults[n].id)
                  \in {NoResult, completedResults[n].res}
      ]_vars

\* ------------------------------------------------------------ C33
\* the sessions that run a createListing request
ListingSessions == { i \in Sessions : auto[i].caller.kind \in {"call", "retry"} }

\* C33: every session in the map that runs a createListing request has a
\* timer whose check is scheduled or has fired.
C33_EverySessionTimed ==
    \A i \in ListingSessions : Live(i) => auto[i].timer \in {"armed", "fired"}

\* The part of C33 about the sessions that startAutomation creates: each has
\* had setupAutomationTimeout called for it when it is in the map.
C33_CallSessionsTimed ==
    \A i \in ListingSessions :
        (Live(i) /\ auto[i].caller.kind = "call") => auto[i].timer # "none"

\* ------------------------------------------------------------ C34
\* the sessions whose timer has a check scheduled
ActiveTimers == { i \in Sessions : auto[i].timer = "armed" }

\* C34: a session that is not in the map has no timer check scheduled, so
\* there are at most as many scheduled checks as sessions in the map.
C34_TimerStopsAtCleanup ==
    /\ \A i \in Sessions : ~Live(i) => auto[i].timer # "armed"
    /\ Cardinality(ActiveTimers) <= Len(runningAutomations)

\* The part of C34 about a cleanup that runs before the first check: the
\* timer of a session that failed its parameter check has no check scheduled.
C34_FirstCheckCancelled ==
    \A i \in Sessions :
        auto[i].ret = ErrorResult(ErrMissing) => auto[i].timer # "armed"

\* ------------------------------------------------------------ C35
\* C35: a session whose status is paused stays at the step of its script
\* where it was paused, and its status changes only by being resumed to
\* running.
C35_PausedStandsStill ==
    [][ \A i \in 1..Len(auto) :
          auto[i].status = "paused" =>
              /\ auto'[i].status \in {"paused", "running"}
              /\ auto'[i].status = "paused" => auto'[i].pc = auto[i].pc
      ]_vars

\* ------------------------------------------------------------- C36
\* sessions that entered the map through startAutomation, whose code sends
\* the count after the insertion
CountedSessions == { i \in Sessions : auto[i].caller.kind = "call" }

\* C36: the active-session count last sent to the UI equals the size of the
\* live-session map, which changes only in startSetup, startAutomation, the
\* retry after re-authentication and cleanupAutomation.
C36_CountMatchesMap == activeCount = Len(runningAutomations)

\* the part that holds: a removal, and an insertion by startAutomation, send
\* the new size
C36_CountedStepsMatch ==
    [][ ( /\ runningAutomations' # runningAutomations
          /\ \/ Len(runningAutomations') < Len(runningAutomations)
             \/ runningAutomations'[Len(runningAutomations')] \in CountedSessions )
        => activeCount' = Len(runningAutomations') ]_vars

\* a session inserted by the retry is in the map while the UI shows zero
C36_Uncounted ==
    /\ runningAutomations # <<>>
    /\ activeCount = 0

\* ------------------------------------------------------------- C37
\* the positions of startSetup at which a browser exists and startSetup has
\* not yet put its session in the map: context and page creation
SetupUnregisteredPcs == {"setup_context"}

\* C37: a browser that was launched and is not closed belongs to a session in
\* the live-session map, except while the call that launched it is still
\* creating its context and page; a failure there leaves no open browser
\* without a session in the map.
C37_NoOrphanBrowser ==
    \A i \in Setups :
        auto[i].pc \in SetupBrowserPcs \ SetupUnregisteredPcs => Live(i)

\* the part that holds: a registered setup session keeps its browser in the
\* map until cleanupAutomation has closed it
C37_RegisteredOwned ==
    \A i \in Setups :
        auto[i].pc \in SetupBrowserPcs \ (SetupUnregisteredPcs \cup {"setup_leaked"})
            => Live(i)

\* ---------------------------------------------------------- completeSetup
ErrNoActive == "No active setup session found"
ErrNotFound == "Setup session not found"
ErrStorage  == "storageState failed"

\* getCurrentSetupId(): the key of the first entry of runningAutomations, in
\* insertion order, whose status is running; 0 when it throws
\* 'No active setup session found'
GetCurrentSetupId ==
    LET running == { n \in 1..Len(runningAutomations) :
                        auto[runningAutomations[n]].status = "running" }
    IN  IF running = {} THEN 0
        ELSE runningAutomations[CHOOSE n \in running : \A m \in running : n <= m]

\* completeSetup(automationId), up to await context.storageState(...)
CompleteSetup(id) ==
    complete' = IF Live(id)
                THEN [NoComplete EXCEPT !.pc = "storage", !.id = id]
                ELSE [NoComplete EXCEPT !.pc = "rejected", !.id = id,
                                        !.error = ErrNotFound]

\* the 'completeSetup' command of the UI: getCurrentSetupId() and then
\* completeSetup of the id it returned
CompleteSetupCommand ==
    /\ Idle
    /\ complete.pc = "idle"
    /\ IF GetCurrentSetupId = 0
       THEN complete' = [NoComplete EXCEPT !.pc = "rejected", !.error = ErrNoActive]
       ELSE CompleteSetup(GetCurrentSetupId)
    /\ UNCHANGED << isReauthenticating, runningAutomations, pendingAutomations,
                    completedResults, oldResults, authBrowser, authOpen, auto,
                    cycles, calls, walls, lastResult, microtasks, activeCount,
                    config, printVars >>

\* completeSetup called with the id of a session that has left the map
CompleteSetupStale(id) ==
    /\ Idle
    /\ complete.pc = "idle"
    /\ id \in 1..Len(auto)
    /\ ~Live(id)
    /\ CompleteSetup(id)
    /\ UNCHANGED << isReauthenticating, runningAutomations, pendingAutomations,
                    completedResults, oldResults, authBrowser, authOpen, auto,
                    cycles, calls, walls, lastResult, microtasks, activeCount,
                    config, printVars >>

\* the browser state is written: saveConfig awaits fs.writeFile
CompleteStorageOk ==
    /\ Idle
    /\ complete.pc = "storage"
    /\ BrowserOpen(complete.id)
    /\ complete' = [complete EXCEPT !.pc = "save"]
    /\ UNCHANGED << isReauthenticating, runningAutomations, pendingAutomations,
                    completedResults, oldResults, authBrowser, authOpen, auto,
                    cycles, calls, walls, lastResult, microtasks, activeCount,
                    config, printVars >>

\* cleanupAutomation(id) as completeSetup calls it, up to browser.close():
\* nothing when the session has left the map
CompleteCleanup(pc, done, err) ==
    LET id == complete.id
    IN  /\ complete' = IF Live(id) THEN [complete EXCEPT !.pc = pc]
                       ELSE [complete EXCEPT !.pc = done, !.error = err]
        /\ completedResults' =
              CleanupStore(runningAutomations, completedResults, id, auto[id].result)

\* the configuration is written: the status becomes completed and
\* cleanupAutomation(automationId) is awaited
CompleteSaved ==
    /\ Idle
    /\ complete.pc = "save"
    /\ config' = TRUE
    /\ auto' = [auto EXCEPT ![complete.id].status = "completed",
                            ![complete.id].closes =
                                IF Live(complete.id) THEN 1 ELSE @]
    /\ CompleteCleanup("cleanup", "resolved", "")
    /\ UNCHANGED << isReauthenticating, runningAutomations, pendingAutomations,
                    oldResults, authBrowser, authOpen, cycles, calls, walls,
                    lastResult, microtasks, activeCount, printVars >>

\* context.storageState rejects: the catch awaits cleanupAutomation and
\* rethrows
CompleteStorageFail ==
    /\ Idle
    /\ complete.pc = "storage"
    /\ auto' = [auto EXCEPT ![complete.id].closes =
                                IF Live(complete.id) THEN 1 ELSE @]
    /\ CompleteCleanup("fail_cleanup", "rejected", ErrStorage)
    /\ UNCHANGED << isReauthenticating, runningAutomations, pendingAutomations,
                    oldResults, authBrowser, authOpen, cycles, calls, walls,
                    lastResult, microtasks, activeCount, config, printVars >>

\* browser.close() of that cleanup returns: the session leaves the map, the
\* count is sent and completeSetup ends
CompleteCleanupDone ==
    /\ Idle
    /\ complete.pc \in {"cleanup", "fail_cleanup"}
    /\ runningAutomations' = SeqRemove(runningAutomations, complete.id)
    /\ activeCount' = Len(runningAutomations')
    /\ complete' = [complete EXCEPT
          !.pc = IF complete.pc = "cleanup" THEN "resolved" ELSE "rejected",
          !.error = IF complete.pc = "cleanup" THEN "" ELSE ErrStorage,
          !.closed = TRUE]
    /\ UNCHANGED << isReauthenticating, pendingAutomations, completedResults,
                    oldResults, authBrowser, authOpen, auto, cycles, calls, walls,
                    lastResult, microtasks, config, printVars >>

NextComplete ==
    \/ StartSetup
    \/ \E i \in Sessions : SetupAccessOk(i)
    \/ \E i \in Sessions : SetupLaunched(i)
    \/ \E i \in Sessions : SetupPageOk(i)
    \/ \E i \in Sessions : SetupGotoOk(i)
    \/ \E i \in Sessions : SetupLoginOk(i)
    \/ \E i \in Sessions : SetupSaved(i)
    \/ \E i \in Sessions : SetupShown(i)
    \/ \E i \in Sessions : SetupNoBrowser(i)
    \/ \E i \in Sessions : SetupContextFail(i)
    \/ \E i \in Sessions : SetupFail(i)
    \/ \E i \in Sessions : SetupCleanupDone(i)
    \/ \E c \in Calls, req \in CompleteRequests : StartAutomation(c, req)
    \/ \E i \in Sessions : Created(i)
    \/ \E i \in Sessions : LaunchFail(i)
    \/ \E i \in Sessions : GotoOk(i)
    \/ \E i \in Sessions : PortalFail(i)
    \/ \E i \in Sessions : ScriptOk(i)
    \/ \E i \in Sessions : PrepOk(i)
    \/ \E i \in Sessions : FinalCloseDone(i)
    \/ \E i \in Sessions : RunCleanupDone(i)
    \/ RunReturned
    \/ CompleteSetupCommand
    \/ \E id \in Sessions : CompleteSetupStale(id)
    \/ CompleteStorageOk
    \/ CompleteSaved
    \/ CompleteStorageFail
    \/ CompleteCleanupDone

SpecComplete == InitQuery /\ [][NextComplete]_vars

\* ------------------------------------------------------------- C38
\* C38: the id that getCurrentSetupId chooses is the id of a session created
\* by startSetup, never that of a createListing session.
C38_CurrentIsSetup ==
    /\ GetCurrentSetupId # 0 => GetCurrentSetupId \in Setups
    /\ complete.id # 0 /\ complete.error # ErrNotFound => complete.id \in Setups

\* the part that holds: completeSetup of an id that is not in the map throws
\* 'Setup session not found' and changes neither the stored configuration
\* nor any session
C38_NotFoundChangesNothing ==
    [][ (complete.pc = "idle" /\ complete'.pc # "idle" /\ ~Live(complete'.id)
            /\ complete'.id # 0)
        => /\ complete'.pc = "rejected"
           /\ complete'.error = ErrNotFound
           /\ UNCHANGED << config, auto, runningAutomations, completedResults >> ]_vars

\* completeSetup was refused for a session that is not in the map
C38_NotFound == complete.error = ErrNotFound

\* the command has ended a createListing session
C38_ListingCompleted ==
    /\ complete.pc = "resolved"
    /\ complete.id \notin Setups

\* ------------------------------------------------------- print settings
\* the printers of the machine
Printers == {"Zebra", "Brother"}

\* values of the copies field; in the argument of setPrintSettings 0 also
\* stands for an absent field, which copies: settings.copies || ... treats
\* like zero
CopiesValues == {0, 2}

\* the PrintSettings objects that the UI sends and that settings.json may hold
PrintSettingsValues == [printer : Printers \cup {""}, copies : CopiesValues]

\* the variables that the print settings do not use
managerVars == << isReauthenticating, runningAutomations, pendingAutomations,
                  completedResults, oldResults, authBrowser, authOpen, auto,
                  cycles, calls, walls, lastResult, microtasks, activeCount,
                  config, complete >>

\* getPrinterName()
GetPrinterName == printerName

\* getPrintSettings()
GetPrintSettings == printSettings

\* { ...this.printSettings, ...settings.printSettings } of loadSettings: the
\* file, written by saveSettings, holds both fields
LoadMerge(mem, saved) == [printer |-> saved.printer, copies |-> saved.copies]

\* { ...this.printSettings, ...settings,
\*   copies: settings.copies || this.printSettings.copies || 0 }
SetMerge(mem, settings) ==
    [printer |-> settings.printer,
     copies  |-> IF settings.copies # 0 THEN settings.copies ELSE mem.copies]

\* if (settings.printer) this.printerName = settings.printer, left out
SetPrinterName_Keep(name, settings) == name

\* if (settings.printer) this.printerName = settings.printer
SetPrinterName(name, settings) ==
    IF settings.printer # "" THEN settings.printer ELSE name

\* new AutomationManager(...): loadSettings() has run up to fs.access and
\* initializePrinter() up to getPrintersAsync(); settings.json is what an
\* earlier run of the program left
InitPrint ==
    /\ isReauthenticating = FALSE
    /\ runningAutomations = <<>>
    /\ pendingAutomations = <<>>
    /\ completedResults = <<>>
    /\ oldResults = 0
    /\ authBrowser = 0
    /\ authOpen = {}
    /\ auto = <<>>
    /\ cycles = <<>>
    /\ calls = [c \in Calls |-> [state |-> "idle", value |-> 0,
                                 request |-> NoRequest, error |-> ""]]
    /\ walls = 0
    /\ lastResult = [id |-> 0, res |-> NoResult]
    /\ microtasks = <<>>
    /\ activeCount = 0
    /\ config = FALSE
    /\ complete = NoComplete
    /\ printerName = ""
    /\ printSettings = DefaultPrintSettings
    /\ settingsFile \in {NoSettingsFile} \cup
                        { [exists |-> TRUE, printSettings |-> s] :
                              s \in PrintSettingsValues }
    /\ startup = [loadSettings |-> "access", initializePrinter |-> "query"]

\* loadSettings(): fs.access has settled; readFile is awaited when the file
\* exists
LoadSettingsAccess ==
    /\ startup.loadSettings = "access"
    /\ startup' = [startup EXCEPT
                      !.loadSettings = IF settingsFile.exists THEN "read" ELSE "done"]
    /\ UNCHANGED << printerName, printSettings, settingsFile, managerVars >>

\* loadSettings(): the file is read and parsed and its printSettings are
\* merged into this.printSettings
LoadSettingsRead ==
    /\ startup.loadSettings = "read"
    /\ printSettings' = LoadMerge(printSettings, settingsFile.printSettings)
    /\ startup' = [startup EXCEPT !.loadSettings = "done"]
    /\ UNCHANGED << printerName, settingsFile, managerVars >>

\* loadSettings(): readFile or JSON.parse throws; the catch logs
LoadSettingsFail ==
    /\ startup.loadSettings = "read"
    /\ startup' = [startup EXCEPT !.loadSettings = "done"]
    /\ UNCHANGED << printerName, printSettings, settingsFile, managerVars >>

\* initializePrinter(): getPrintersAsync has settled; p is the name of the
\* default printer, "" when there is none or the call failed
InitializePrinter(p) ==
    /\ startup.initializePrinter = "query"
    /\ printerName' = IF p # "" THEN p ELSE printerName
    /\ startup' = [startup EXCEPT !.initializePrinter = "done"]
    /\ UNCHANGED << printSettings, settingsFile, managerVars >>

\* setPrintSettings(settings), with its saveSettings(): written is whether
\* fs.writeFile has replaced settings.json
SetPrintSettings(settings, written) ==
    /\ printSettings' = SetMerge(printSettings, settings)
    /\ printerName' = SetPrinterName(printerName, settings)
    /\ settingsFile' = IF written
                       THEN [exists |-> TRUE, printSettings |-> printSettings']
                       ELSE settingsFile
    /\ UNCHANGED << startup, managerVars >>

NextPrint ==
    \/ LoadSettingsAccess
    \/ LoadSettingsRead
    \/ LoadSettingsFail
    \/ \E p \in Printers \cup {""} : InitializePrinter(p)
    \/ \E s \in PrintSettingsValues, w \in BOOLEAN : SetPrintSettings(s, w)

SpecPrint == InitPrint /\ [][NextPrint]_vars

\* ------------------------------------------------------------- C39
\* C39: whenever a printer has been chosen, by setPrintSettings or by the
\* settings loaded from disk at start-up, getPrinterName() equals the
\* printer field of getPrintSettings(), in whatever order loadSettings and
\* initializePrinter finish.
C39_PrinterNameMatches ==
    GetPrintSettings.printer # "" => GetPrinterName = GetPrintSettings.printer

\* the part that holds: setPrintSettings with a printer leaves both equal
C39_SetMakesEqual ==
    [][ (printSettings' # printSettings /\ startup' = startup
            /\ printSettings'.printer # "")
        => printerName' = printSettings'.printer ]_vars

\* the settings of the disk are loaded with a printer that printerName does
\* not hold
C39_LoadedOtherPrinter ==
    /\ startup = [loadSettings |-> "done", initializePrinter |-> "done"]
    /\ printSettings.printer # ""
    /\ printerName # printSettings.printer

====
